---- MODULE Spec2Model ----
(***************************************************************************)
(* Verification model of the whatsdown messenger:                          *)
(*   - the E2EEncryption engine (frontend/public/crypto.js): key ring,     *)
(*     X3DH-style handshake, hash ratchet, AES-GCM message cipher;         *)
(*   - the verify_fix.js history-recovery script that drives it;           *)
(*   - the SimpleCrypto shared-secret scheme (frontend/public/             *)
(*     simpleCrypto.js);                                                   *)
(*   - the directory / routing server (backend/server.js).                 *)
(*                                                                         *)
(* Cryptography is symbolic.  A key pair is a positive number; the private *)
(* and the public half carry the same number.  A byte string produced by   *)
(* ECDH/HKDF is a term [dh, path]: dh is the sequence of DH outputs that   *)
(* were concatenated, path the sequence of HKDF info labels applied to it. *)
(* Two terms are equal exactly when they were computed the same way        *)
(* (collision freedom of SHA-256/HKDF, correctness of ECDH).               *)
(***************************************************************************)
EXTENDS Integers, Sequences, FiniteSets, TLC

\* ------------------------------------------------------------------------
\* Bounds of the model
\* ------------------------------------------------------------------------
MaxOTPK == 1
MaxSessions == 2
MaxMsgs == 3
MaxCalls == 2
MaxHistory == 3
MaxPool == 2
MaxRequests == 3
MaxOps == 6
MaxKeyCalls == 3
MaxSimpleMsgs == 2
MaxSimpleCalls == 3
MaxLoad == 3
MaxDecrypts == 2
MaxExportOps == 5
MaxFpOps == 4
MaxFingerprints == 3
MaxSockets == 2
MaxWsEvents == 5
MaxFetches == 1
MaxWebSockets == 3
MaxLogins == 2
MaxLoads == 2
\* receiveMessage calls: as many as messages
MaxRecv == MaxMsgs
\* key pairs one engine generates: identity, signed pre-key, one-time pre-keys,
\* one ephemeral key per handshake
MaxKeys == 2 + MaxOTPK + MaxSessions

\* ------------------------------------------------------------------------
\* Program constants
\* ------------------------------------------------------------------------
BundleOneTimePreKeys == 10
DefaultLimit == 50
DigestLength == 32

Engines == {"alice", "bob"}

\* The plaintext of the n-th message put on the wire: the callers send
\* pairwise different texts.  A JavaScript string is the sequence of its
\* UTF-16 code units; these are "a", "b", "c", ...
Plaintext(n) == <<96 + n>>

NoKey == 0
NoB64 == [b64 |-> NoKey]

Min(a, b) == IF a <= b THEN a ELSE b

\* ------------------------------------------------------------------------
\* Symbolic primitives
\* ------------------------------------------------------------------------

\* crypto.subtle.deriveBits({name:'ECDH', public: pub}, priv, 256): the shared
\* point depends on the two key pairs only, not on which side is private.
DeriveBitsECDH(pub, priv) == {pub, priv}

\* new Uint8Array(...).set(...): concatenation of the DH outputs, kept as a
\* byte string with no HKDF label applied yet.
Combine(dhs) == [dh |-> dhs, path |-> <<>>]

\* hkdf(inputKeyMaterial, salt, info, length); salt is always 32 zero bytes and
\* length always 32 in this program, so the output is a function of ikm and info.
hkdf(ikm, info) == [dh |-> ikm.dh, path |-> Append(ikm.path, info)]

\* A chain that does not move: every message under the same key.
deriveMessageKeys_NoAdvance(chainKey) ==
    [messageKey   |-> hkdf(chainKey, "MessageKey"),
     nextChainKey |-> chainKey]

deriveMessageKeys(chainKey) ==
    [messageKey   |-> hkdf(chainKey, "MessageKey"),
     nextChainKey |-> hkdf(chainKey, "ChainKey")]

\* btoa over the bytes of a buffer: the canonical base64 spelling of the bytes.
arrayBufferToBase64(buffer) == [b64 |-> buffer]

\* A string atob rejects (a character outside the base64 alphabet, or a length
\* no padding completes).
InvalidBase64 == [invalid |-> TRUE]
IsBase64(base64) == "b64" \in DOMAIN base64

\* Another spelling of the same bytes that atob accepts: ASCII whitespace
\* added, the padding left out, or the unused low bits of the last character
\* changed.  atob (forgiving-base64 decode) removes whitespace, completes the
\* padding and drops the unused bits without looking at them.
Respell(base64) == [b64 |-> base64.b64, respelled |-> TRUE]

\* atob, then the bytes of the binary string; defined on what atob accepts.
base64ToArrayBuffer(base64) == base64.b64

exportPublicKey(publicKey) == arrayBufferToBase64(publicKey)
importPublicKey(base64Key) == base64ToArrayBuffer(base64Key)

\* UTF-8 of one Unicode scalar value.
Utf8(c) ==
    IF c < 128 THEN <<c>>
    ELSE IF c < 2048 THEN <<192 + (c \div 64), 128 + (c % 64)>>
    ELSE IF c < 65536
         THEN <<224 + (c \div 4096), 128 + ((c \div 64) % 64), 128 + (c % 64)>>
         ELSE <<240 + (c \div 262144), 128 + ((c \div 4096) % 64),
                128 + ((c \div 64) % 64), 128 + (c % 64)>>

IsHighSurrogate(u) == 55296 <= u /\ u <= 56319
IsLowSurrogate(u) == 56320 <= u /\ u <= 57343

\* new TextEncoder().encode(string): a surrogate pair is one scalar value, a
\* surrogate without its partner is encoded as U+FFFD.
RECURSIVE TextEncode(_)
TextEncode(string) ==
    IF string = <<>> THEN <<>>
    ELSE IF /\ IsHighSurrogate(string[1])
            /\ Len(string) >= 2
            /\ IsLowSurrogate(string[2])
         THEN Utf8(65536 + (string[1] - 55296) * 1024 + (string[2] - 56320))
                  \o TextEncode(SubSeq(string, 3, Len(string)))
    ELSE IF IsHighSurrogate(string[1]) \/ IsLowSurrogate(string[1])
         THEN Utf8(65533) \o TextEncode(Tail(string))
    ELSE Utf8(string[1]) \o TextEncode(Tail(string))

\* new TextDecoder().decode(bytes), on well-formed UTF-8: AES-GCM hands over
\* only bytes that TextEncoder produced.
RECURSIVE TextDecode(_)
TextDecode(bytes) ==
    IF bytes = <<>> THEN <<>>
    ELSE IF bytes[1] < 128
         THEN <<bytes[1]>> \o TextDecode(Tail(bytes))
    ELSE IF bytes[1] < 224
         THEN <<(bytes[1] - 192) * 64 + (bytes[2] - 128)>>
                  \o TextDecode(SubSeq(bytes, 3, Len(bytes)))
    ELSE IF bytes[1] < 240
         THEN <<(bytes[1] - 224) * 4096 + (bytes[2] - 128) * 64 + (bytes[3] - 128)>>
                  \o TextDecode(SubSeq(bytes, 4, Len(bytes)))
    ELSE LET c == (bytes[1] - 240) * 262144 + (bytes[2] - 128) * 4096
                      + (bytes[3] - 128) * 64 + (bytes[4] - 128) - 65536
         IN  <<55296 + (c \div 1024), 56320 + (c % 1024)>>
                  \o TextDecode(SubSeq(bytes, 5, Len(bytes)))

\* crypto.subtle.encrypt with AES-GCM: the ciphertext (with its tag) binds
\* key, iv and plaintext bytes.
AesGcmEncrypt(key, iv, data) == [key |-> key, iv |-> iv, pt |-> data]

\* An authenticated decryption that does not bind the iv.
AesGcmOpens_AnyIv(key, iv, ciphertext) == ciphertext.key = key

\* crypto.subtle.decrypt with AES-GCM: rejects unless key and iv are the ones
\* the ciphertext was made with.
AesGcmOpens(key, iv, ciphertext) == ciphertext.key = key /\ ciphertext.iv = iv

encryptMessage(plaintext, messageKey, iv) ==
    [ciphertext |-> arrayBufferToBase64(AesGcmEncrypt(messageKey, iv, TextEncode(plaintext))),
     iv         |-> arrayBufferToBase64(iv)]

DecryptFailed == "Decryption failed - message may be corrupted or tampered with"
NoSessionError == "No session exists with this contact"
InvalidCharacterError == "InvalidCharacterError"

\* base64ToArrayBuffer is called before the try block: what atob throws
\* leaves decryptMessage as it is.
decryptMessage(encryptedData, messageKey) ==
    IF ~IsBase64(encryptedData.ciphertext) \/ ~IsBase64(encryptedData.iv)
    THEN [ok |-> FALSE, text |-> InvalidCharacterError]
    ELSE LET ciphertext == base64ToArrayBuffer(encryptedData.ciphertext)
             iv == base64ToArrayBuffer(encryptedData.iv)
         IN  IF AesGcmOpens(messageKey, iv, ciphertext)
             THEN [ok |-> TRUE, text |-> TextDecode(ciphertext.pt)]
             ELSE [ok |-> FALSE, text |-> DecryptFailed]

\* A ciphertext whose bits were changed in transit: no key opens it.
Corrupted == [dh |-> <<>>, path |-> <<"corrupted">>]
Tamper(encryptedData) == [encryptedData EXCEPT !.ciphertext.b64.key = Corrupted]
\* A message whose iv field was changed in transit.
TamperIv(encryptedData) == [encryptedData EXCEPT !.iv.b64 = @ + 1]

\* ------------------------------------------------------------------------
\* State
\* ------------------------------------------------------------------------
VARIABLES
    identityKeyPair,   \* engine -> key pair (NoKey: null)
    signedPreKey,      \* engine -> key pair (NoKey: null)
    oneTimePreKeys,    \* engine -> sequence of key pairs
    sessions,          \* engine -> (contactId -> session), the sessions Map
    nextKey,           \* engine -> key pairs crypto.subtle.generateKey has returned to it
    nextIv,            \* the next IV getRandomValues returns
    nextSid,           \* history: engine -> handshakes it has completed
    bundles,           \* engine -> the bundle it last exported (NoBundle: none)
    wire,              \* messages sent so far, in sending order
    recvLog,           \* engine -> contactId -> outcomes of receiveMessage calls
                       \*   since the contact's last handshake (history); tampered:
                       \*   the message was changed in transit
    calls,             \* sendMessage calls started and not awaited one by one
    tf,                \* verify_fix.js testFix: its position and local variables
    op,                \* the last call made on an engine's interface and its outcome
    simple,            \* SimpleCrypto: the calls made so far and what they returned
    app,               \* App.js: the messages state and a loadMessages call in progress
    decrypts,          \* decryptMessage and SimpleCrypto.decrypt calls on inputs that
                       \*   may differ from what was encrypted, and their outcomes
    fingerprints,      \* generateFingerprint calls: the argument and the string returned
    web,               \* App.js: the token state, wsRef.current, the WebSockets made
                       \*   so far with their reconnect timers
    users,             \* server: the User collection, username -> document
    messages,          \* server: the Message collection, in insertion order
    requests,          \* server: GET /api/users/:username/keys requests in flight
    responses,         \* server: the responses sent to those requests (history)
    sockets,           \* server: the WebSocket connections accepted so far, each with
                       \*   its readyState and the username variable of its closure
    clients,           \* server: the clients Map, username -> connection
    wsEvents           \* server: the number of WebSocket events handled (history)

engineVars == <<identityKeyPair, signedPreKey, oneTimePreKeys, sessions,
                nextKey, nextIv, nextSid>>
ratchetVars == <<bundles, wire, recvLog>>
socketVars == <<sockets, clients, wsEvents>>
serverVars == <<users, messages, requests, responses, socketVars>>
clientVars == <<simple, app, decrypts, fingerprints, web>>

NoBundle == [identityKey |-> NoB64, signedPreKey |-> NoB64, oneTimePreKeys |-> <<>>]

\* The n-th key pair generateKey returns to engine e: fresh, so different from
\* every other key pair of every engine.
FreshKey(e, n) == (IF e = "alice" THEN 100 ELSE 200) + n

Handshakes == nextSid["alice"] + nextSid["bob"]

HasSession(e, contactId) == contactId \in DOMAIN sessions[e]

\* ------------------------------------------------------------------------
\* E2EEncryption: key ring
\* ------------------------------------------------------------------------
generateIdentityKeyPair(e) ==
    /\ identityKeyPair' = [identityKeyPair EXCEPT ![e] = FreshKey(e, nextKey[e] + 1)]
    /\ nextKey' = [nextKey EXCEPT ![e] = @ + 1]

generateSignedPreKey(e) ==
    /\ signedPreKey' = [signedPreKey EXCEPT ![e] = FreshKey(e, nextKey[e] + 1)]
    /\ nextKey' = [nextKey EXCEPT ![e] = @ + 1]

generateOneTimePreKeys(e, count) ==
    /\ oneTimePreKeys' = [oneTimePreKeys EXCEPT
                             ![e] = [i \in 1..count |-> FreshKey(e, nextKey[e] + i)]]
    /\ nextKey' = [nextKey EXCEPT ![e] = @ + count]

\* exportIdentityBundle: the value returned; the key ring is not changed.
CanExportIdentityBundle(e) ==
    identityKeyPair[e] # NoKey /\ signedPreKey[e] # NoKey

\* An export that returns the whole pool.
exportIdentityBundle_WholePool(e) ==
    [identityKey    |-> exportPublicKey(identityKeyPair[e]),
     signedPreKey   |-> exportPublicKey(signedPreKey[e]),
     oneTimePreKeys |->
        [i \in 1..Len(oneTimePreKeys[e]) |-> exportPublicKey(oneTimePreKeys[e][i])]]

exportIdentityBundle(e) ==
    [identityKey    |-> exportPublicKey(identityKeyPair[e]),
     signedPreKey   |-> exportPublicKey(signedPreKey[e]),
     oneTimePreKeys |->
        [i \in 1..Min(BundleOneTimePreKeys, Len(oneTimePreKeys[e])) |->
            exportPublicKey(oneTimePreKeys[e][i])]]

\* ------------------------------------------------------------------------
\* E2EEncryption: handshake
\* ------------------------------------------------------------------------

\* A key agreement that leaves the one-time pre-key out of the root key.
KeyAgreementRootKey_NoDH4(ownIdentity, ephemeral, theirIdentityKey, theirSignedPreKey, theirOneTimePreKey) ==
    LET dh1 == DeriveBitsECDH(theirSignedPreKey, ownIdentity)
        dh2 == DeriveBitsECDH(theirIdentityKey, ephemeral)
        dh3 == DeriveBitsECDH(theirSignedPreKey, ephemeral)
    IN  hkdf(Combine(<<dh1, dh2, dh3>>), "RootKey")

\* performKeyAgreement: the root key, given the ephemeral key pair it generated.
KeyAgreementRootKey(ownIdentity, ephemeral, theirIdentityKey, theirSignedPreKey, theirOneTimePreKey) ==
    LET dh1 == DeriveBitsECDH(theirSignedPreKey, ownIdentity)
        dh2 == DeriveBitsECDH(theirIdentityKey, ephemeral)
        dh3 == DeriveBitsECDH(theirSignedPreKey, ephemeral)
        combinedDH == IF theirOneTimePreKey # NoKey
                      THEN <<dh1, dh2, dh3,
                             DeriveBitsECDH(theirOneTimePreKey, ephemeral)>>
                      ELSE <<dh1, dh2, dh3>>
    IN  hkdf(Combine(combinedDH), "RootKey")

\* A responder that pairs identity with identity and pre-key with ephemeral
\* in DH1 and DH2: not the mirror image of the initiator's pairing.
ReceiveRootKey_Unmirrored(ownSignedPreKey, ownIdentity, senderIdentityKey, sendingEphemeralKey) ==
    LET dh1 == DeriveBitsECDH(senderIdentityKey, ownIdentity)
        dh2 == DeriveBitsECDH(sendingEphemeralKey, ownSignedPreKey)
        dh3 == DeriveBitsECDH(sendingEphemeralKey, ownSignedPreKey)
    IN  hkdf(Combine(<<dh1, dh2, dh3>>), "RootKey")

\* createReceiveSession: the root key of the responder.
ReceiveRootKey(ownSignedPreKey, ownIdentity, senderIdentityKey, sendingEphemeralKey) ==
    LET dh1 == DeriveBitsECDH(senderIdentityKey, ownSignedPreKey)
        dh2 == DeriveBitsECDH(sendingEphemeralKey, ownIdentity)
        dh3 == DeriveBitsECDH(sendingEphemeralKey, ownSignedPreKey)
    IN  hkdf(Combine(<<dh1, dh2, dh3>>), "RootKey")

\* A session whose receiving chain starts one step ahead of the root.
NewSession_ReceiveAhead(rootKey, ephemeralPublicKey, hist) ==
    [rootKey           |-> rootKey,
     sendingChainKey   |-> rootKey,
     receivingChainKey |-> hkdf(rootKey, "ChainKey"),
     messageNumber     |-> 0,
     ephemeralPublicKey |-> ephemeralPublicKey,
     hist              |-> hist]

\* The session object stored by a handshake.  hist records how the handshake was
\* run (history only: no operation reads it).
NewSession(rootKey, ephemeralPublicKey, hist) ==
    [rootKey           |-> rootKey,
     sendingChainKey   |-> rootKey,
     receivingChainKey |-> rootKey,
     messageNumber     |-> 0,
     ephemeralPublicKey |-> ephemeralPublicKey,
     hist              |-> hist]

\* createSession(contactId, theirIdentityKey, theirSignedPreKey, theirOneTimePreKey)
\* with performKeyAgreement inlined.  The ephemeral key pair is produced by
\* generateSignedPreKey, which stores it as this engine's signed pre-key.
\* A null identity key pair makes the first deriveBits throw before any change.
createSession(e, contactId, theirIdentityKey, theirSignedPreKey, theirOneTimePreKey) ==
    /\ identityKeyPair[e] # NoKey
    /\ nextKey[e] < MaxKeys
    /\ LET ephemeral == FreshKey(e, nextKey[e] + 1)
           rootKey == KeyAgreementRootKey(identityKeyPair[e], ephemeral,
                         theirIdentityKey, theirSignedPreKey, theirOneTimePreKey)
           hist == [sid |-> nextSid[e] + 1, role |-> "initiator",
                    ownIdentity |-> identityKeyPair[e], ownSignedPreKey |-> NoKey,
                    theirIdentityKey |-> theirIdentityKey,
                    theirSignedPreKey |-> theirSignedPreKey,
                    theirOneTimePreKey |-> theirOneTimePreKey,
                    theirEphemeralKey |-> NoKey]
       IN  /\ signedPreKey' = [signedPreKey EXCEPT ![e] = ephemeral]
           /\ nextKey' = [nextKey EXCEPT ![e] = @ + 1]
           /\ sessions' = [sessions EXCEPT ![e] =
                  (contactId :> NewSession(rootKey, exportPublicKey(ephemeral), hist)) @@ @]
           /\ nextSid' = [nextSid EXCEPT ![e] = @ + 1]

\* A responder that starts a new sessions Map holding the new session only.
createReceiveSession_NewMap(e, contactId, senderIdentityKey, sendingEphemeralKey) ==
    /\ signedPreKey[e] # NoKey
    /\ identityKeyPair[e] # NoKey
    /\ LET rootKey == ReceiveRootKey(signedPreKey[e], identityKeyPair[e],
                                     senderIdentityKey, sendingEphemeralKey)
           hist == [sid |-> nextSid[e] + 1, role |-> "responder",
                    ownIdentity |-> identityKeyPair[e],
                    ownSignedPreKey |-> signedPreKey[e],
                    theirIdentityKey |-> senderIdentityKey,
                    theirSignedPreKey |-> NoKey,
                    theirOneTimePreKey |-> NoKey,
                    theirEphemeralKey |-> sendingEphemeralKey]
       IN  /\ sessions' = [sessions EXCEPT ![e] =
                  (contactId :> NewSession(rootKey, NoB64, hist))]
           /\ nextSid' = [nextSid EXCEPT ![e] = @ + 1]

\* createReceiveSession(contactId, senderIdentityKey, sendingEphemeralKey).
\* A null signed pre-key or identity key pair throws before the session is stored.
createReceiveSession(e, contactId, senderIdentityKey, sendingEphemeralKey) ==
    /\ signedPreKey[e] # NoKey
    /\ identityKeyPair[e] # NoKey
    /\ LET rootKey == ReceiveRootKey(signedPreKey[e], identityKeyPair[e],
                                     senderIdentityKey, sendingEphemeralKey)
           hist == [sid |-> nextSid[e] + 1, role |-> "responder",
                    ownIdentity |-> identityKeyPair[e],
                    ownSignedPreKey |-> signedPreKey[e],
                    theirIdentityKey |-> senderIdentityKey,
                    theirSignedPreKey |-> NoKey,
                    theirOneTimePreKey |-> NoKey,
                    theirEphemeralKey |-> sendingEphemeralKey]
       IN  /\ sessions' = [sessions EXCEPT ![e] =
                  (contactId :> NewSession(rootKey, NoB64, hist)) @@ @]
           /\ nextSid' = [nextSid EXCEPT ![e] = @ + 1]

\* ------------------------------------------------------------------------
\* E2EEncryption: ratchet, one call run to completion
\* ------------------------------------------------------------------------

\* sendMessage(contactId, plaintext) on an existing session: the session after
\* the call and the value returned.
\* A sender that also replaces the root key by the new chain key.
SendAdvance_Rekey(session) ==
    [session EXCEPT !.sendingChainKey = deriveMessageKeys(session.sendingChainKey).nextChainKey,
                    !.rootKey = deriveMessageKeys(session.sendingChainKey).nextChainKey,
                    !.messageNumber = @ + 1]

SendAdvance(session) ==
    [session EXCEPT !.sendingChainKey = deriveMessageKeys(session.sendingChainKey).nextChainKey,
                    !.messageNumber = @ + 1]

\* A sender that returns the counter as it was before the call.
SendResult_NumberBefore(session, plaintext, iv) ==
    LET encrypted == encryptMessage(plaintext,
                        deriveMessageKeys(session.sendingChainKey).messageKey, iv)
    IN  [ciphertext    |-> encrypted.ciphertext,
         iv            |-> encrypted.iv,
         messageNumber |-> session.messageNumber]

SendResult(session, plaintext, iv) ==
    LET encrypted == encryptMessage(plaintext,
                        deriveMessageKeys(session.sendingChainKey).messageKey, iv)
    IN  [ciphertext    |-> encrypted.ciphertext,
         iv            |-> encrypted.iv,
         messageNumber |-> SendAdvance(session).messageNumber]

\* receiveMessage(contactId, encryptedData) on an existing session.
\* A receiver whose chain stays where it is.
ReceiveAdvance_Stay(session) == session

\* A receiver that steps the sending chain together with the receiving chain.
ReceiveAdvance_BothChains(session) ==
    [session EXCEPT !.receivingChainKey =
                        deriveMessageKeys(session.receivingChainKey).nextChainKey,
                    !.sendingChainKey =
                        deriveMessageKeys(session.sendingChainKey).nextChainKey]

ReceiveAdvance(session) ==
    [session EXCEPT !.receivingChainKey =
                        deriveMessageKeys(session.receivingChainKey).nextChainKey]

\* A receiver that opens every authentic message, whatever its position.
ReceiveResult_AnyPosition(session, encryptedData) ==
    decryptMessage(encryptedData, encryptedData.ciphertext.b64.key)

ReceiveResult(session, encryptedData) ==
    decryptMessage(encryptedData, deriveMessageKeys(session.receivingChainKey).messageKey)

\* A receiver that moves its chain only when the message decrypts.
ReceiveStep_AdvanceOnSuccess(session, encryptedData) ==
    [session |-> IF ReceiveResult(session, encryptedData).ok
                 THEN ReceiveAdvance(session) ELSE session,
     result  |-> ReceiveResult(session, encryptedData)]

\* The session after the call and what the call returns or throws.
ReceiveStep(session, encryptedData) ==
    [session |-> ReceiveAdvance(session),
     result  |-> ReceiveResult(session, encryptedData)]

\* ------------------------------------------------------------------------
\* Specification Spec: two engines, handshakes in both roles, messages that
\* the transport may lose, repeat or reorder.  Every call runs to completion
\* before the next one starts (each call is awaited).
\* ------------------------------------------------------------------------
EngineInit ==
    /\ identityKeyPair = [e \in Engines |-> NoKey]
    /\ signedPreKey = [e \in Engines |-> NoKey]
    /\ oneTimePreKeys = [e \in Engines |-> <<>>]
    /\ sessions = [e \in Engines |-> <<>>]
    /\ nextKey = [e \in Engines |-> 0]
    /\ nextIv = 1
    /\ nextSid = [e \in Engines |-> 0]

RatchetInit ==
    /\ bundles = [e \in Engines |-> NoBundle]
    /\ wire = <<>>
    /\ recvLog = [e \in Engines |-> [c \in Engines |-> <<>>]]

\* Setup of one engine as verify_fix.js does it: generateIdentityKeyPair,
\* generateSignedPreKey, generateOneTimePreKeys(MaxOTPK), each awaited, then the
\* first exportIdentityBundle.
Register(e) ==
    /\ identityKeyPair[e] = NoKey
    /\ LET ik == FreshKey(e, nextKey[e] + 1)
           spk == FreshKey(e, nextKey[e] + 2)
           otpks == [i \in 1..MaxOTPK |-> FreshKey(e, nextKey[e] + 2 + i)]
       IN  /\ nextKey[e] + 2 + MaxOTPK <= MaxKeys
           /\ identityKeyPair' = [identityKeyPair EXCEPT ![e] = ik]
           /\ signedPreKey' = [signedPreKey EXCEPT ![e] = spk]
           /\ oneTimePreKeys' = [oneTimePreKeys EXCEPT ![e] = otpks]
           /\ nextKey' = [nextKey EXCEPT ![e] = @ + 2 + MaxOTPK]
           /\ bundles' = [bundles EXCEPT ![e] =
                  [identityKey    |-> exportPublicKey(ik),
                   signedPreKey   |-> exportPublicKey(spk),
                   oneTimePreKeys |->
                      [i \in 1..Min(BundleOneTimePreKeys, MaxOTPK) |->
                          exportPublicKey(otpks[i])]]]
    /\ UNCHANGED <<sessions, nextIv, nextSid, wire, recvLog>>
    /\ UNCHANGED <<calls, tf, op, clientVars, serverVars>>

\* a starts a chat with b from the bundle b published: with no one-time pre-key,
\* or with the first one of the bundle.
CreateSession(a, b) ==
    /\ a # b
    /\ bundles[b] # NoBundle
    /\ Handshakes < MaxSessions
    /\ \E theirOneTimePreKey \in
            {NoKey} \cup {importPublicKey(bundles[b].oneTimePreKeys[i]) :
                              i \in DOMAIN bundles[b].oneTimePreKeys \cap {1}} :
          createSession(a, b, importPublicKey(bundles[b].identityKey),
                        importPublicKey(bundles[b].signedPreKey), theirOneTimePreKey)
    /\ recvLog' = [recvLog EXCEPT ![a][b] = <<>>]
    /\ UNCHANGED <<identityKeyPair, oneTimePreKeys, nextIv, bundles, wire>>
    /\ UNCHANGED <<calls, tf, op, clientVars, serverVars>>

\* b answers the handshake of a with the identity key a published and the
\* ephemeral key a's createSession returned.
CreateReceiveSession(b, a) ==
    /\ a # b
    /\ bundles[a] # NoBundle
    /\ Handshakes < MaxSessions
    /\ HasSession(a, b)
    /\ sessions[a][b].ephemeralPublicKey # NoB64
    /\ createReceiveSession(b, a, importPublicKey(bundles[a].identityKey),
                            importPublicKey(sessions[a][b].ephemeralPublicKey))
    /\ recvLog' = [recvLog EXCEPT ![b][a] = <<>>]
    /\ UNCHANGED <<identityKeyPair, signedPreKey, oneTimePreKeys, nextKey, nextIv,
                   bundles, wire>>
    /\ UNCHANGED <<calls, tf, op, clientVars, serverVars>>

SendMessage(e, contactId) ==
    /\ HasSession(e, contactId)
    /\ Len(wire) < MaxMsgs
    /\ LET session == sessions[e][contactId]
           plaintext == Plaintext(Len(wire) + 1)
       IN  /\ sessions' = [sessions EXCEPT ![e][contactId] = SendAdvance(session)]
           /\ wire' = Append(wire, [from |-> e, to |-> contactId,
                                    payload |-> SendResult(session, plaintext, nextIv),
                                    text |-> plaintext,
                                    sid |-> session.hist.sid])
    /\ nextIv' = nextIv + 1
    /\ UNCHANGED <<identityKeyPair, signedPreKey, oneTimePreKeys, nextKey, nextSid,
                   bundles, recvLog>>
    /\ UNCHANGED <<calls, tf, op, clientVars, serverVars>>

\* The receiveMessage calls logged since the last handshakes.
ReceiveCalls ==
    LET n(e) == Len(recvLog[e]["alice"]) + Len(recvLog[e]["bob"])
    IN  n("alice") + n("bob")

\* e is handed message w of the wire, whatever was delivered before it.
ReceiveMessage(e, contactId) ==
    /\ ReceiveCalls < MaxRecv
    /\ \E w \in DOMAIN wire :
         /\ wire[w].from = contactId
         /\ wire[w].to = e
         /\ LET encryptedData == [ciphertext |-> wire[w].payload.ciphertext,
                                  iv |-> wire[w].payload.iv]
            IN  IF HasSession(e, contactId)
                THEN LET session == sessions[e][contactId]
                         result == ReceiveResult(session, encryptedData)
                     IN  /\ sessions' = [sessions EXCEPT
                                            ![e][contactId] = ReceiveAdvance(session)]
                         /\ recvLog' = [recvLog EXCEPT ![e][contactId] =
                                Append(@, [w |-> w, ok |-> result.ok, text |-> result.text,
                                           tampered |-> FALSE])]
                ELSE /\ sessions' = sessions
                     /\ recvLog' = [recvLog EXCEPT ![e][contactId] =
                            Append(@, [w |-> w, ok |-> FALSE, text |-> NoSessionError,
                                       tampered |-> FALSE])]
    /\ UNCHANGED <<identityKeyPair, signedPreKey, oneTimePreKeys, nextKey, nextIv,
                   nextSid, bundles, wire>>
    /\ UNCHANGED <<calls, tf, op, clientVars, serverVars>>

vars == <<engineVars, ratchetVars, calls, tf, op, clientVars, serverVars>>

\* The parts of the state a specification does not use stay as constructed.
CallsInit == calls = <<>>
TestFixInit ==
    tf = [pc |-> "alice.generateIdentityKeyPair", bobKeys |-> NoBundle,
          ephemeralPublicKey |-> NoB64, msgParams |-> <<>>, texts |-> <<>>,
          history |-> <<>>, i |-> 0, decrypted |-> <<>>]
NoResult == <<>>
NoCall == [name |-> "", engine |-> "", contactId |-> "", error |-> "", result |-> NoResult,
           n |-> 0]
ApiInit == op = NoCall
\* sessions: this.sessions, the only field of a SimpleCrypto object; keys: what
\* deriveSharedKey has returned; sent: what encrypt has returned; log: what
\* decrypt has returned or thrown (histories).
SimpleInit == simple = [sessions |-> <<>>, keys |-> <<>>, sent |-> <<>>, log |-> <<>>]
\* messages: the React state; data, i, decryptedMessages: the locals of the
\* loadMessages call in progress (pc "idle": none); loads: the calls started.
AppInit ==
    app = [pc |-> "idle", messages |-> <<>>, data |-> <<>>, i |-> 0,
           decryptedMessages |-> <<>>, loads |-> 0]
DecryptsInit == decrypts = <<>>
FingerprintsInit == fingerprints = <<>>
\* The page loads with no token in localStorage.
WebInit == web = [token |-> 0, wsRef |-> 0, ws |-> <<>>, loggedOut |-> FALSE, logins |-> 0]
ServerInit ==
    /\ users = <<>>
    /\ messages = <<>>
    /\ requests = <<>>
    /\ responses = <<>>
    /\ sockets = <<>>
    /\ clients = <<>>
    /\ wsEvents = 0

Init == EngineInit /\ RatchetInit /\ CallsInit /\ TestFixInit /\ ApiInit /\ SimpleInit /\ AppInit /\ DecryptsInit
        /\ FingerprintsInit /\ WebInit
        /\ ServerInit

Next ==
    \E e \in Engines :
        \/ Register(e)
        \/ \E c \in Engines :
              \/ CreateSession(e, c)
              \/ CreateReceiveSession(e, c)
              \/ SendMessage(e, c)
              \/ ReceiveMessage(e, c)

Spec == Init /\ [][Next]_vars

\* ------------------------------------------------------------------------
\* Properties under Spec
\* ------------------------------------------------------------------------

\* a initiated with the keys b holds and b answered with the identity key of a
\* and the ephemeral key a's createSession returned; both sessions are the
\* current ones.
Handshaken(a, b) ==
    /\ a # b
    /\ HasSession(a, b)
    /\ HasSession(b, a)
    /\ LET sa == sessions[a][b]
           sb == sessions[b][a]
       IN  /\ sa.hist.role = "initiator"
           /\ sb.hist.role = "responder"
           /\ sa.hist.theirIdentityKey = sb.hist.ownIdentity
           /\ sa.hist.theirSignedPreKey = sb.hist.ownSignedPreKey
           /\ sb.hist.theirIdentityKey = sa.hist.ownIdentity
           /\ sb.hist.theirEphemeralKey = importPublicKey(sa.ephemeralPublicKey)

\* The wire positions of the messages the current session of a has sent to b,
\* in sending order.
RECURSIVE SentFrom(_, _, _)
SentFrom(a, b, n) ==
    IF n = 0 THEN <<>>
    ELSE IF /\ wire[n].from = a
            /\ wire[n].to = b
            /\ HasSession(a, b)
            /\ wire[n].sid = sessions[a][b].hist.sid
         THEN Append(SentFrom(a, b, n - 1), n)
         ELSE SentFrom(a, b, n - 1)

Sent(a, b) == SentFrom(a, b, Len(wire))

\* b has been handed the first messages of a, each once, in sending order.
InOrder(b, a) ==
    /\ Len(recvLog[b][a]) <= Len(Sent(a, b))
    /\ \A j \in DOMAIN recvLog[b][a] : recvLog[b][a][j].w = Sent(a, b)[j]

C2_RootKeysConverge ==
    \A a \in Engines, b \in Engines :
        Handshaken(a, b) => sessions[a][b].rootKey = sessions[b][a].rootKey

\* C7: the first receiveMessage after createReceiveSession, when handed the
\* sender's message #2, fails.
C7_SecondMessageFirstFails ==
    \A a \in Engines, b \in Engines :
        (/\ HasSession(b, a)
         /\ sessions[b][a].hist.role = "responder"
         /\ Len(recvLog[b][a]) >= 1
         /\ wire[recvLog[b][a][1].w].payload.messageNumber = 2)
        => /\ ~recvLog[b][a][1].ok
           /\ recvLog[b][a][1].text = DecryptFailed

C7_Witness ==
    \E a \in Engines, b \in Engines :
        /\ Handshaken(a, b)
        /\ sessions[a][b].rootKey = sessions[b][a].rootKey
        /\ Len(recvLog[b][a]) >= 1
        /\ recvLog[b][a][1].w \in {Sent(a, b)[i] : i \in DOMAIN Sent(a, b)}
        /\ wire[recvLog[b][a][1].w].payload.messageNumber = 2
        /\ ~recvLog[b][a][1].ok

\* The message number of the message handed over in the j-th receiveMessage call.
Handed(b, a, j) == wire[recvLog[b][a][j].w].payload.messageNumber

\* Before the j-th call of b, a message of a's current session older than the
\* one handed over now was never handed over (lost), or two messages were handed
\* over in swapped order; all calls up to j were on messages of that session,
\* each message handed over once.
Desynchronized(b, a, j) ==
    /\ \A i \in 1..j : recvLog[b][a][i].w \in {Sent(a, b)[k] : k \in DOMAIN Sent(a, b)}
    /\ \A i \in 1..j, k \in 1..j : i # k => recvLog[b][a][i].w # recvLog[b][a][k].w
    /\ \/ \E m \in 1..(Handed(b, a, j) - 1) : \A i \in 1..(j - 1) : Handed(b, a, i) # m
       \/ \E i \in 1..(j - 1), k \in 1..(j - 1) : i < k /\ Handed(b, a, i) > Handed(b, a, k)

\* The message handed over in the j-th call was sent after all those handed
\* over before.
LaterMessage(b, a, j) == \A i \in 1..(j - 1) : Handed(b, a, j) > Handed(b, a, i)

\* C8 as stated: after a loss or a swap no later message of the direction is
\* decrypted any more.
C8_PermanentDesync ==
    \A a \in Engines, b \in Engines :
        \A j \in DOMAIN recvLog[b][a] :
            (/\ HasSession(b, a)
             /\ Desynchronized(b, a, j)
             /\ LaterMessage(b, a, j))
            => ~recvLog[b][a][j].ok

\* C8 as amended: receiveMessage decrypts a message only in the call whose
\* position since the handshake equals the message's number, and, between
\* sessions with equal root keys, always in that call.  So after a loss every
\* later message fails while each is handed over once, in order; after a swap
\* the two swapped messages fail and the messages after them decrypt again.
C8_DecryptsOnlyInPosition ==
    \A a \in Engines, b \in Engines :
        HasSession(b, a) =>
            \A j \in DOMAIN recvLog[b][a] :
                /\ recvLog[b][a][j].ok => Handed(b, a, j) = j
                /\ (/\ HasSession(a, b)
                    /\ sessions[a][b].rootKey = sessions[b][a].rootKey
                    /\ recvLog[b][a][j].w \in {Sent(a, b)[k] : k \in DOMAIN Sent(a, b)}
                    /\ Handed(b, a, j) = j)
                   => recvLog[b][a][j].ok

\* Two messages were handed over in swapped order and failed; the next one,
\* handed over at its own position, decrypts.
C8_Witness ==
    \E a \in Engines, b \in Engines :
        /\ HasSession(b, a)
        /\ Len(recvLog[b][a]) = 3
        /\ Desynchronized(b, a, 3)
        /\ LaterMessage(b, a, 3)
        /\ Handed(b, a, 1) = 2
        /\ Handed(b, a, 2) = 1
        /\ ~recvLog[b][a][1].ok
        /\ ~recvLog[b][a][2].ok
        /\ recvLog[b][a][3].ok

\* ------------------------------------------------------------------------
\* Specification SpecConcurrentSend: sendMessage calls on an established
\* session that are started without awaiting the previous one.  A call is
\* suspended at its two awaits (deriveMessageKeys, encryptMessage); the code
\* between two awaits runs without interruption.
\* ------------------------------------------------------------------------

\* sendMessage up to its first await: the session is looked up and
\* session.sendingChainKey is read as the argument of deriveMessageKeys.
SendCall(e, contactId) ==
    /\ HasSession(e, contactId)
    /\ Len(calls) < MaxCalls
    /\ calls' = Append(calls,
                  [pc |-> "deriveMessageKeys", engine |-> e, contactId |-> contactId,
                   plaintext |-> Plaintext(Len(calls) + 1),
                   keys |-> deriveMessageKeys(sessions[e][contactId].sendingChainKey),
                   iv |-> 0, messageNumber |-> 0])
    /\ UNCHANGED <<engineVars>>
    /\ UNCHANGED <<ratchetVars, tf, op, clientVars, serverVars>>

\* deriveMessageKeys has resolved: the chain key and the counter are written,
\* then encryptMessage is entered and draws its IV.
SendDerived(k) ==
    /\ k \in DOMAIN calls
    /\ calls[k].pc = "deriveMessageKeys"
    /\ LET e == calls[k].engine
           contactId == calls[k].contactId
       IN  sessions' = [sessions EXCEPT ![e][contactId] =
                          [@ EXCEPT !.sendingChainKey = calls[k].keys.nextChainKey,
                                    !.messageNumber = @ + 1]]
    /\ calls' = [calls EXCEPT ![k].pc = "encryptMessage", ![k].iv = nextIv]
    /\ nextIv' = nextIv + 1
    /\ UNCHANGED <<identityKeyPair, signedPreKey, oneTimePreKeys, nextKey, nextSid>>
    /\ UNCHANGED <<ratchetVars, tf, op, clientVars, serverVars>>

\* encryptMessage has resolved: the call returns {...encrypted, messageNumber:
\* session.messageNumber}, the counter as it is now.
SendReturned(k) ==
    /\ k \in DOMAIN calls
    /\ calls[k].pc = "encryptMessage"
    /\ calls' = [calls EXCEPT
                   ![k].pc = "returned",
                   ![k].messageNumber =
                        sessions[calls[k].engine][calls[k].contactId].messageNumber]
    /\ UNCHANGED <<engineVars>>
    /\ UNCHANGED <<ratchetVars, tf, op, clientVars, serverVars>>

\* The value call k has returned.
Returned(k) ==
    LET encrypted == encryptMessage(calls[k].plaintext, calls[k].keys.messageKey,
                                    calls[k].iv)
    IN  [ciphertext    |-> encrypted.ciphertext,
         iv            |-> encrypted.iv,
         messageNumber |-> calls[k].messageNumber]

\* Sessions are established before the calls start.
SetupRegister(e) == calls = <<>> /\ Register(e)
SetupCreateSession(a, b) == calls = <<>> /\ CreateSession(a, b)
SetupCreateReceiveSession(b, a) == calls = <<>> /\ CreateReceiveSession(b, a)

NextConcurrentSend ==
    \/ \E e \in Engines :
          \/ SetupRegister(e)
          \/ \E c \in Engines :
                \/ SetupCreateSession(e, c)
                \/ SetupCreateReceiveSession(e, c)
                \/ SendCall(e, c)
    \/ \E k \in 1..MaxCalls :
          \/ SendDerived(k)
          \/ SendReturned(k)

SpecConcurrentSend == Init /\ [][NextConcurrentSend]_vars

\* C4: whatever the interleaving, two sendMessage calls on one session never
\* derive the same message key and never return the same message number.
C4_ConcurrentSendsSerialized ==
    \A k1 \in DOMAIN calls, k2 \in DOMAIN calls :
        (/\ k1 # k2
         /\ calls[k1].engine = calls[k2].engine
         /\ calls[k1].contactId = calls[k2].contactId)
        => /\ calls[k1].keys.messageKey # calls[k2].keys.messageKey
           /\ (calls[k1].pc = "returned" /\ calls[k2].pc = "returned")
                 => Returned(k1).messageNumber # Returned(k2).messageNumber

\* ------------------------------------------------------------------------
\* Specification SpecTestFix: verify_fix.js, testFix().  One engine for Alice
\* and one for Bob, every call awaited; the script is run for two or more
\* messages with texts of the caller's choice.
\* ------------------------------------------------------------------------
\* "Message 1: Hello Bob!", "Message 2: How are you?", "Message 3"
TestTexts ==
    {<<77, 101, 115, 115, 97, 103, 101, 32, 49, 58, 32, 72, 101, 108, 108, 111, 32, 66, 111, 98, 33>>,
     <<77, 101, 115, 115, 97, 103, 101, 32, 50, 58, 32, 72, 111, 119, 32, 97, 114, 101, 32, 121, 111, 117, 63>>,
     <<77, 101, 115, 115, 97, 103, 101, 32, 51>>}

\* obj.name in JavaScript: undefined when the object has no such property.
Undefined == NoB64
Property(obj, name) == IF name \in DOMAIN obj THEN obj[name] ELSE Undefined

Reverse(seq) == [i \in 1..Len(seq) |-> seq[Len(seq) + 1 - i]]

TfOthers == <<ratchetVars, calls, op, clientVars, serverVars>>

TfAliceIdentity ==
    /\ tf.pc = "alice.generateIdentityKeyPair"
    /\ nextKey["alice"] < MaxKeys
    /\ generateIdentityKeyPair("alice")
    /\ tf' = [tf EXCEPT !.pc = "alice.generateSignedPreKey"]
    /\ UNCHANGED <<signedPreKey, oneTimePreKeys, sessions, nextIv, nextSid, TfOthers>>

TfAliceSignedPreKey ==
    /\ tf.pc = "alice.generateSignedPreKey"
    /\ nextKey["alice"] < MaxKeys
    /\ generateSignedPreKey("alice")
    /\ tf' = [tf EXCEPT !.pc = "bob.generateIdentityKeyPair"]
    /\ UNCHANGED <<identityKeyPair, oneTimePreKeys, sessions, nextIv, nextSid, TfOthers>>

TfBobIdentity ==
    /\ tf.pc = "bob.generateIdentityKeyPair"
    /\ nextKey["bob"] < MaxKeys
    /\ generateIdentityKeyPair("bob")
    /\ tf' = [tf EXCEPT !.pc = "bob.generateSignedPreKey"]
    /\ UNCHANGED <<signedPreKey, oneTimePreKeys, sessions, nextIv, nextSid, TfOthers>>

TfBobSignedPreKey ==
    /\ tf.pc = "bob.generateSignedPreKey"
    /\ nextKey["bob"] < MaxKeys
    /\ generateSignedPreKey("bob")
    /\ tf' = [tf EXCEPT !.pc = "bob.exportIdentityBundle"]
    /\ UNCHANGED <<identityKeyPair, oneTimePreKeys, sessions, nextIv, nextSid, TfOthers>>

\* 2. Alice starts chat with Bob
TfExportBundle ==
    /\ tf.pc = "bob.exportIdentityBundle"
    /\ CanExportIdentityBundle("bob")
    /\ tf' = [tf EXCEPT !.pc = "alice.createSession",
                        !.bobKeys = exportIdentityBundle("bob")]
    /\ UNCHANGED <<engineVars, TfOthers>>

TfCreateSession ==
    /\ tf.pc = "alice.createSession"
    /\ Handshakes < MaxSessions
    /\ createSession("alice", "bob", importPublicKey(tf.bobKeys.identityKey),
                     importPublicKey(tf.bobKeys.signedPreKey), NoKey)
    /\ tf' = [tf EXCEPT !.pc = "alice.sendMessage",
                        !.ephemeralPublicKey = sessions'["alice"]["bob"].ephemeralPublicKey]
    /\ UNCHANGED <<identityKeyPair, oneTimePreKeys, nextIv, TfOthers>>

\* 3. Alice sends messages
TfSendMessage ==
    /\ tf.pc = "alice.sendMessage"
    /\ Len(tf.msgParams) < MaxHistory
    /\ HasSession("alice", "bob")
    /\ \E plaintext \in TestTexts :
         LET session == sessions["alice"]["bob"]
         IN  /\ sessions' = [sessions EXCEPT !["alice"]["bob"] = SendAdvance(session)]
             /\ tf' = [tf EXCEPT
                         !.msgParams = Append(@, SendResult(session, plaintext, nextIv)),
                         !.texts = Append(@, plaintext)]
    /\ nextIv' = nextIv + 1
    /\ UNCHANGED <<identityKeyPair, signedPreKey, oneTimePreKeys, nextKey, nextSid,
                   TfOthers>>

\* 4. The history as the API returns it, newest first, then reversed.
HistoryEntry(msgParams) ==
    [from             |-> "alice",
     encryptedContent |-> msgParams.ciphertext,
     iv               |-> msgParams.iv,
     ephemeralKey     |-> Property(msgParams, "ephemeralPublicKey"),
     messageNumber    |-> msgParams.messageNumber]

TfLoadHistory ==
    /\ tf.pc = "alice.sendMessage"
    /\ Len(tf.msgParams) >= 2
    /\ LET history == [i \in 1..Len(tf.msgParams) |->
                          HistoryEntry(tf.msgParams[Len(tf.msgParams) + 1 - i])]
       IN  tf' = [tf EXCEPT !.pc = "for", !.i = 1, !.history = Reverse(history)]
    /\ UNCHANGED <<engineVars, TfOthers>>

\* The script after a message was decrypted to text: the next iteration, or
\* "Test Complete" after the last one.
TfDecrypted(text) ==
    [tf EXCEPT !.i = @ + 1, !.decrypted = Append(@, text),
               !.pc = IF tf.i = Len(tf.history) THEN "Test Complete" ELSE "for"]

\* One iteration of the for loop over chronologicalHistory: the receiveMessage
\* in the try block and, when it throws, the catch block.  An exception thrown
\* inside the catch block leaves testFix ("Test Failed").
TfReceive ==
    /\ tf.pc = "for"
    /\ tf.i <= Len(tf.history)
    /\ LET msg == tf.history[tf.i]
           encryptedData == [ciphertext |-> msg.encryptedContent, iv |-> msg.iv]
           \* the try block
           first == IF HasSession("bob", "alice")
                    THEN ReceiveResult(sessions["bob"]["alice"], encryptedData)
                    ELSE [ok |-> FALSE, text |-> NoSessionError]
           afterFirst == IF HasSession("bob", "alice")
                         THEN [sessions EXCEPT !["bob"]["alice"] = ReceiveAdvance(@)]
                         ELSE sessions
           recover == ~first.ok /\ first.text = NoSessionError
                         /\ msg.ephemeralKey # Undefined
       IN  IF first.ok
           THEN /\ sessions' = afterFirst
                /\ tf' = TfDecrypted(first.text)
                /\ UNCHANGED <<nextSid>>
           ELSE IF recover
           THEN \* Bob fetches Alice's identity key, createReceiveSession, retry
                /\ CanExportIdentityBundle("alice")
                /\ signedPreKey["bob"] # NoKey
                /\ identityKeyPair["bob"] # NoKey
                /\ Handshakes < MaxSessions
                /\ LET aliceKeys == exportIdentityBundle("alice")
                       rootKey == ReceiveRootKey(signedPreKey["bob"], identityKeyPair["bob"],
                                     importPublicKey(aliceKeys.identityKey),
                                     importPublicKey(msg.ephemeralKey))
                       hist == [sid |-> nextSid["bob"] + 1, role |-> "responder",
                                ownIdentity |-> identityKeyPair["bob"],
                                ownSignedPreKey |-> signedPreKey["bob"],
                                theirIdentityKey |-> importPublicKey(aliceKeys.identityKey),
                                theirSignedPreKey |-> NoKey,
                                theirOneTimePreKey |-> NoKey,
                                theirEphemeralKey |-> importPublicKey(msg.ephemeralKey)]
                       session == NewSession(rootKey, NoB64, hist)
                       retry == ReceiveResult(session, encryptedData)
                   IN  /\ sessions' = [sessions EXCEPT !["bob"] =
                                          ("alice" :> ReceiveAdvance(session)) @@ @]
                       /\ nextSid' = [nextSid EXCEPT !["bob"] = @ + 1]
                       /\ tf' = IF retry.ok
                                THEN TfDecrypted(retry.text)
                                ELSE [tf EXCEPT !.pc = "Test Failed"]
           ELSE \* the else branch: receiveMessage once more
                LET retry == IF HasSession("bob", "alice")
                             THEN ReceiveResult(afterFirst["bob"]["alice"], encryptedData)
                             ELSE [ok |-> FALSE, text |-> NoSessionError]
                IN  /\ sessions' = IF HasSession("bob", "alice")
                                   THEN [afterFirst EXCEPT !["bob"]["alice"] = ReceiveAdvance(@)]
                                   ELSE sessions
                    /\ tf' = IF retry.ok
                             THEN TfDecrypted(retry.text)
                             ELSE [tf EXCEPT !.pc = "Test Failed"]
                    /\ UNCHANGED <<nextSid>>
    /\ UNCHANGED <<identityKeyPair, signedPreKey, oneTimePreKeys, nextKey, nextIv,
                   TfOthers>>

NextTestFix ==
    \/ TfAliceIdentity
    \/ TfAliceSignedPreKey
    \/ TfBobIdentity
    \/ TfBobSignedPreKey
    \/ TfExportBundle
    \/ TfCreateSession
    \/ TfSendMessage
    \/ TfLoadHistory
    \/ TfReceive

SpecTestFix == Init /\ [][NextTestFix]_vars

\* The ephemeral key a value returned by sendMessage carries, under the name
\* of the wire format (ephemeralKey) or the name testFix reads (ephemeralPublicKey).
CarriedEphemeralKey(msgParams) ==
    IF Property(msgParams, "ephemeralKey") # Undefined
    THEN Property(msgParams, "ephemeralKey")
    ELSE Property(msgParams, "ephemeralPublicKey")

\* C5: the first message sent after createSession carries the session's
\* ephemeral public key and every later message carries none.
C5_FirstMessageCarriesEphemeralKey ==
    \A i \in DOMAIN tf.msgParams :
        CarriedEphemeralKey(tf.msgParams[i]) =
            (IF i = 1 THEN tf.ephemeralPublicKey ELSE Undefined)

\* C6: Bob, without a session, processes Alice's k >= 2 messages in
\* chronological order: the session is recovered from the first message and
\* every message is decrypted to its plaintext; the script never fails.
C6_HistoryRecovery ==
    /\ tf.pc # "Test Failed"
    /\ tf.pc = "Test Complete" => tf.decrypted = tf.texts

\* ------------------------------------------------------------------------
\* SimpleCrypto (simpleCrypto.js): the scheme the web client uses.  Usernames
\* are strings, modelled as sequences of UTF-16 code units.
\* ------------------------------------------------------------------------
Usernames == {<<97>>, <<98>>}          \* "a", "b"

SecretSeparator == <<58, 115, 101, 99, 114, 101, 116, 58>>   \* ':secret:'

\* Array.prototype.sort without a comparator: order by code units.
RECURSIVE StrLess(_, _)
StrLess(s, t) ==
    IF t = <<>> THEN FALSE
    ELSE IF s = <<>> THEN TRUE
    ELSE IF Head(s) # Head(t) THEN Head(s) < Head(t)
    ELSE StrLess(Tail(s), Tail(t))

SHA256(data) == [sha256 |-> data]

\* A derivation that joins the two names in the order they were passed.
deriveSharedKey_Unsorted(username1, username2) ==
    SHA256(TextEncode(username1 \o SecretSeparator \o username2))

deriveSharedKey(username1, username2) ==
    LET sortedUsers == IF StrLess(username2, username1)
                       THEN <<username2, username1>>
                       ELSE <<username1, username2>>
        combined == sortedUsers[1] \o SecretSeparator \o sortedUsers[2]
    IN  SHA256(TextEncode(combined))

encrypt(message, myUsername, theirUsername, iv) ==
    LET key == deriveSharedKey(myUsername, theirUsername)
    IN  [ciphertext |-> arrayBufferToBase64(AesGcmEncrypt(key, iv, TextEncode(message))),
         iv         |-> arrayBufferToBase64(iv)]

SimpleDecryptFailed == "Decryption failed - message may be corrupted"

\* A decrypt that joins the two names in the order they were passed.
decrypt_Unsorted(ciphertext, iv, myUsername, theirUsername) ==
    IF ~IsBase64(ciphertext) \/ ~IsBase64(iv)
    THEN [ok |-> FALSE, text |-> SimpleDecryptFailed]
    ELSE LET key == deriveSharedKey_Unsorted(myUsername, theirUsername)
             ciphertextBytes == base64ToArrayBuffer(ciphertext)
             ivBytes == base64ToArrayBuffer(iv)
         IN  IF AesGcmOpens(key, ivBytes, ciphertextBytes)
             THEN [ok |-> TRUE, text |-> TextDecode(ciphertextBytes.pt)]
             ELSE [ok |-> FALSE, text |-> SimpleDecryptFailed]

\* The whole body is inside the try block: whatever is thrown, by atob or by
\* crypto.subtle.decrypt, leaves as the one error.
decrypt(ciphertext, iv, myUsername, theirUsername) ==
    IF ~IsBase64(ciphertext) \/ ~IsBase64(iv)
    THEN [ok |-> FALSE, text |-> SimpleDecryptFailed]
    ELSE LET key == deriveSharedKey(myUsername, theirUsername)
             ciphertextBytes == base64ToArrayBuffer(ciphertext)
             ivBytes == base64ToArrayBuffer(iv)
         IN  IF AesGcmOpens(key, ivBytes, ciphertextBytes)
             THEN [ok |-> TRUE, text |-> TextDecode(ciphertextBytes.pt)]
             ELSE [ok |-> FALSE, text |-> SimpleDecryptFailed]

\* ------------------------------------------------------------------------
\* Specification SpecServer: server.js, the HTTP routes over the User and
\* Message collections.  A handler runs up to each await of a database call;
\* handlers of different requests interleave there.
\* ------------------------------------------------------------------------
Null == [owner |-> <<>>, n |-> 0]

OthersOfServer == <<engineVars, ratchetVars, calls, tf, op, clientVars>>

Pending == Len(requests) + Len(responses)

\* Array.prototype.shift on a Mongoose array.
shift_Peek(array) ==
    [value |-> IF array = <<>> THEN Null ELSE Head(array),
     rest  |-> array]

shift(array) ==
    [value |-> IF array = <<>> THEN Null ELSE Head(array),
     rest  |-> IF array = <<>> THEN <<>> ELSE Tail(array)]

\* An update that writes the array whatever version the stored document has.
save_Overwrite(collection, doc) ==
    [ok |-> TRUE, collection |-> [collection EXCEPT ![doc.username] = doc]]

\* doc.save() after an array of doc was replaced (shift marks the whole array
\* modified).  userSchema sets no versionKey option, so documents carry __v:
\* the update is { $set: array, $inc: __v } filtered by _id and the __v the
\* document was loaded with, and a save that matches no document throws
\* VersionError.
save(collection, doc) ==
    IF collection[doc.username].version = doc.version
    THEN [ok |-> TRUE,
          collection |-> [collection EXCEPT ![doc.username] =
                             [doc EXCEPT !.version = @ + 1]]]
    ELSE [ok |-> FALSE, collection |-> collection]

\* POST /api/register with a pool of n one-time pre-keys.
RegisterUser(username, n) ==
    /\ username \notin DOMAIN users
    /\ users' = users @@ (username :>
          [username       |-> username,
           oneTimePreKeys |-> [i \in 1..n |-> [owner |-> username, n |-> i]],
           version        |-> 0,
           registered     |-> [i \in 1..n |-> [owner |-> username, n |-> i]]])
    /\ UNCHANGED <<messages, requests, responses, socketVars, OthersOfServer>>

\* GET /api/users/:username/keys up to the await of User.findOne.
KeysFindOne(requester, username) ==
    /\ requester \in DOMAIN users
    /\ Pending < MaxRequests
    /\ IF username \in DOMAIN users
       THEN /\ requests' = Append(
                   [k \in DOMAIN requests |->
                       IF requests[k].username = username
                       THEN [requests[k] EXCEPT !.sequential = FALSE]
                       ELSE requests[k]],
                   [route      |-> "keys",
                    requester  |-> requester,
                    username   |-> username,
                    user       |-> users[username],
                    sequential |-> \A k \in DOMAIN requests :
                                       requests[k].username # username])
            /\ UNCHANGED responses
       ELSE /\ responses' = Append(responses,
                   [route |-> "keys", status |-> 404, requester |-> requester,
                    username |-> username, oneTimePreKey |-> Null,
                    sequential |-> TRUE])
            /\ UNCHANGED requests
    /\ UNCHANGED <<users, messages, socketVars, OthersOfServer>>

\* The rest of the handler: shift, save when a key was taken, respond; the
\* catch block answers 500.
KeysRespond(k) ==
    /\ k \in DOMAIN requests
    /\ requests[k].route = "keys"
    /\ LET req == requests[k]
           shifted == shift(req.user.oneTimePreKeys)
           oneTimePreKey == shifted.value
           saved == IF oneTimePreKey # Null
                    THEN save(users, [req.user EXCEPT !.oneTimePreKeys = shifted.rest])
                    ELSE [ok |-> TRUE, collection |-> users]
       IN  /\ users' = saved.collection
           /\ responses' = Append(responses,
                  [route |-> "keys", status |-> IF saved.ok THEN 200 ELSE 500,
                   requester |-> req.requester, username |-> req.username,
                   oneTimePreKey |-> IF saved.ok THEN oneTimePreKey ELSE Null,
                   sequential |-> req.sequential])
    /\ requests' = [j \in 1..(Len(requests) - 1) |->
                       IF j < k THEN requests[j] ELSE requests[j + 1]]
    /\ UNCHANGED <<messages, socketVars, OthersOfServer>>

\* Array.prototype.push(...items) on a Mongoose array.
push(array, items) == array \o items

\* doc.save() after items were pushed to an array of doc: push registers the
\* atomic $push, so the update is { $push: { $each: items }, $inc: __v }
\* filtered by _id alone; it applies to the array as stored.  A document with
\* nothing modified sends no update.
savePushed(collection, doc, items) ==
    IF items = <<>>
    THEN [ok |-> TRUE, collection |-> collection]
    ELSE [ok |-> TRUE,
          collection |-> [collection EXCEPT
              ![doc.username].oneTimePreKeys = push(@, items),
              ![doc.username].version = @ + 1]]

\* POST /api/users/refresh-keys up to the await of User.findOne, for a request
\* whose token verifies as username and whose body holds the array bodyKeys
\* as oneTimePreKeys.
RefreshFindOne(username, bodyKeys) ==
    /\ username \in DOMAIN users
    /\ Pending < MaxRequests
    /\ requests' = Append(
           [k \in DOMAIN requests |->
               IF requests[k].username = username
               THEN [requests[k] EXCEPT !.sequential = FALSE]
               ELSE requests[k]],
           [route          |-> "refresh",
            requester      |-> username,
            username       |-> username,
            user           |-> users[username],
            sequential     |-> \A k \in DOMAIN requests :
                                  requests[k].username # username,
            oneTimePreKeys |-> bodyKeys])
    /\ UNCHANGED <<users, messages, responses, socketVars, OthersOfServer>>

\* The rest of the handler: push, save, respond with the length of the
\* handler's array.
RefreshRespond(k) ==
    /\ k \in DOMAIN requests
    /\ requests[k].route = "refresh"
    /\ LET req == requests[k]
           pushed == push(req.user.oneTimePreKeys, req.oneTimePreKeys)
           saved == savePushed(users, req.user, req.oneTimePreKeys)
       IN  /\ users' = saved.collection
           /\ responses' = Append(responses,
                  [route |-> "refresh", status |-> IF saved.ok THEN 200 ELSE 500,
                   requester |-> req.requester, username |-> req.username,
                   oneTimePreKey |-> Null, sequential |-> req.sequential,
                   oneTimePreKeys |-> req.oneTimePreKeys,
                   count |-> Len(pushed)])
    /\ requests' = [j \in 1..(Len(requests) - 1) |->
                       IF j < k THEN requests[j] ELSE requests[j + 1]]
    /\ UNCHANGED <<messages, socketVars, OthersOfServer>>

\* WebSocket.OPEN, CLOSING, CLOSED: the readyState of a connection.
OPEN == "OPEN"
CLOSING == "CLOSING"
CLOSED == "CLOSED"

\* clients.get(to) names a connection whose readyState is OPEN.
Online(to) == to \in DOMAIN clients /\ sockets[clients[to]].readyState = OPEN

\* A handler that marks every stored message delivered.
Delivered_Always(to) == TRUE

\* message.delivered after the push block of POST /api/messages/send.
Delivered(to) == Online(to)

\* A handler that stores the sender named in the request body.
Sender_FromBody(tokenUsername, bodyFrom) == bodyFrom

\* const from = req.user.username: the body is destructured without from.
Sender(tokenUsername, bodyFrom) == tokenUsername

\* The web client's sendMessage (SimpleCrypto.encrypt, then POST
\* /api/messages/send) and the route's handler, for a request whose token
\* verifies as tokenUsername and whose body names bodyFrom as sender: the
\* message is stored, pushed to the recipient's connection when clients holds
\* an open one, and then marked delivered.  timestamp is Date.now() when the
\* document is made.  pushed (the new_message frames sent for the message)
\* and readBy (the connections' users whose mark_read named it) are history.
PostSend(tokenUsername, bodyFrom, to, timestamp) ==
    /\ tokenUsername \in DOMAIN users
    /\ Pending < MaxRequests
    /\ \A i \in DOMAIN messages : messages[i].timestamp <= timestamp
    /\ LET n == Len(messages) + 1
           from == Sender(tokenUsername, bodyFrom)
           encrypted == encrypt(Plaintext(n), tokenUsername, to, n)
       IN  IF to \in DOMAIN users
           THEN /\ messages' = Append(messages,
                       [from |-> from, to |-> to,
                        encryptedContent |-> encrypted.ciphertext,
                        iv |-> encrypted.iv,
                        timestamp |-> timestamp,
                        delivered |-> Delivered(to),
                        read |-> FALSE,
                        pushed |-> IF Online(to)
                                   THEN {[ws |-> clients[to], from |-> from]}
                                   ELSE {},
                        readBy |-> {}])
                /\ responses' = Append(responses,
                       [route |-> "send", status |-> 201, requester |-> tokenUsername,
                        username |-> to, oneTimePreKey |-> Null,
                        sequential |-> TRUE, messageId |-> n])
           ELSE /\ responses' = Append(responses,
                       [route |-> "send", status |-> 404, requester |-> tokenUsername,
                        username |-> to, oneTimePreKey |-> Null,
                        sequential |-> TRUE, messageId |-> 0])
                /\ UNCHANGED messages
    /\ UNCHANGED <<users, requests, socketVars, OthersOfServer>>

NextServer ==
    \/ \E username \in Usernames, n \in 0..MaxPool : RegisterUser(username, n)
    \/ \E requester \in Usernames, username \in Usernames :
          KeysFindOne(requester, username)
    \/ \E k \in 1..MaxRequests : KeysRespond(k)
    \/ \E from \in Usernames, to \in Usernames : PostSend(from, from, to, Len(messages) + 1)

SpecServer == Init /\ [][NextServer]_vars

\* What the server holds or receives: the usernames of its accounts and of
\* the messages it stores; and the keys it can compute from them.
ServerUsernames ==
    DOMAIN users \cup {messages[i].from : i \in DOMAIN messages}
                 \cup {messages[i].to : i \in DOMAIN messages}

ServerDerivableKeys ==
    {deriveSharedKey(a, b) : a \in ServerUsernames, b \in ServerUsernames}

\* C3: in no reachable state can the server derive, from the data it holds,
\* the AES key of a message it stores.
C3_ServerCannotDecrypt ==
    \A i \in DOMAIN messages :
        base64ToArrayBuffer(messages[i].encryptedContent).key \notin ServerDerivableKeys

\* The answers to key fetches for username, in the order they were given.
KeysResponses(username) ==
    SelectSeq(responses, LAMBDA r : r.route = "keys" /\ r.username = username
                                       /\ r.status # 404)

\* C9: whatever the interleaving of GET /api/users/:username/keys requests,
\* no one-time pre-key is returned in two responses.
C9_ServedAtMostOnce ==
    \A i, j \in DOMAIN responses :
        (/\ i < j
         /\ responses[i].route = "keys" /\ responses[j].route = "keys"
         /\ responses[i].status = 200 /\ responses[j].status = 200
         /\ responses[i].oneTimePreKey # Null)
        => responses[i].oneTimePreKey # responses[j].oneTimePreKey

\* Two overlapping fetches for the same user have both been answered, one of
\* them with a key.
C9_Witness ==
    \E i, j \in DOMAIN responses :
        /\ i # j
        /\ responses[i].route = "keys" /\ responses[j].route = "keys"
        /\ responses[i].username = responses[j].username
        /\ ~responses[i].sequential /\ ~responses[j].sequential
        /\ responses[i].status = 200 /\ responses[i].oneTimePreKey # Null

\* C10: a user registered with a pool of n one-time pre-keys and fetched
\* sequentially: the first n fetches return the n keys of the pool, all
\* different and none null, and every later fetch returns null.
C10_Exhaustion ==
    \A username \in DOMAIN users :
        LET rs == KeysResponses(username)
            pool == users[username].registered
        IN  (\A i \in DOMAIN rs : rs[i].sequential) =>
               /\ \A i \in DOMAIN rs :
                     /\ rs[i].status = 200
                     /\ rs[i].oneTimePreKey =
                           (IF i <= Len(pool) THEN pool[i] ELSE Null)
                     /\ i <= Len(pool) => rs[i].oneTimePreKey # Null
               /\ \A i, j \in DOMAIN rs :
                     (i < j /\ j <= Len(pool)) => rs[i].oneTimePreKey # rs[j].oneTimePreKey

\* A pool of n >= 1 keys was fetched n + 1 times, sequentially.
C10_Witness ==
    \E username \in DOMAIN users :
        LET rs == KeysResponses(username)
            pool == users[username].registered
        IN  /\ Len(pool) >= 1
            /\ Len(rs) = Len(pool) + 1
            /\ \A i \in DOMAIN rs : rs[i].sequential
            /\ rs[Len(rs)].oneTimePreKey = Null

\* ------------------------------------------------------------------------
\* Key ring properties (under Spec)
\* ------------------------------------------------------------------------

\* The one-time pre-keys whose public part is in the bundle e last exported.
ExportedOneTimePreKeys(e) ==
    {importPublicKey(bundles[e].oneTimePreKeys[i]) : i \in DOMAIN bundles[e].oneTimePreKeys}

\* The one-time pre-keys in the pool of e.
PoolOneTimePreKeys(e) == {oneTimePreKeys[e][i] : i \in DOMAIN oneTimePreKeys[e]}

\* C11: once exportIdentityBundle has returned, no one-time pre-key of the
\* returned bundle is still in the oneTimePreKeys pool.
C11_ExportedKeysLeavePool ==
    \A e \in Engines : ExportedOneTimePreKeys(e) \cap PoolOneTimePreKeys(e) = {}

\* ------------------------------------------------------------------------
\* Specification SpecApi: one E2EEncryption object and every method of its
\* interface, called in any order with any contact identifier, each call
\* awaited.  Engines share no state, so one engine is followed; the keys of
\* its peers are inputs.  op records the last call, what it returned or
\* threw, and how many calls were made (at most MaxOps are followed).
\* ------------------------------------------------------------------------
ApiEngines == {"alice"}
ContactIds == {"bob", "carol"}

\* Public keys received from peers.
PeerIdentityKey == FreshKey("bob", 1)
PeerSignedPreKey == FreshKey("bob", 2)
PeerOneTimePreKey == FreshKey("bob", 3)
PeerEphemeralKey == FreshKey("bob", 4)

TypeError == "TypeError: Cannot read properties of null"
GenerateKeysFirst == "Generate keys first"

CallReturned(name, e, contactId, result) ==
    [name |-> name, engine |-> e, contactId |-> contactId, error |-> "", result |-> result,
     n |-> op.n + 1]

CallThrown(name, e, contactId, error) ==
    [name |-> name, engine |-> e, contactId |-> contactId, error |-> error,
     result |-> NoResult, n |-> op.n + 1]

\* new Uint8Array(hash): the DigestLength bytes of a SHA-256 digest.  The digest
\* is a fixed function of the hashed data; which bytes it has is not modelled
\* beyond that, so the bytes here are spread over 0..255 by the data.
Uint8ArrayOf(hash) ==
    [i \in 1..DigestLength |-> (hash.sha256 * (2 * i + 1) + i * i) % 256]

\* Number.prototype.toString(16) of a byte: one or two lower-case digits.
HexDigits == <<48, 49, 50, 51, 52, 53, 54, 55, 56, 57, 97, 98, 99, 100, 101, 102>>
toString16(b) ==
    IF b < 16 THEN <<HexDigits[b + 1]>>
    ELSE <<HexDigits[(b \div 16) + 1], HexDigits[(b % 16) + 1]>>

\* A formatting that leaves short digit strings as they are.
padStart_None(string, targetLength, padString) == string

\* String.prototype.padStart with a pad string of one code unit.
RECURSIVE padStart(_, _, _)
padStart(string, targetLength, padString) ==
    IF Len(string) >= targetLength THEN string
    ELSE padStart(<<padString>> \o string, targetLength, padString)

\* Array.prototype.join('').
RECURSIVE join(_)
join(parts) == IF parts = <<>> THEN <<>> ELSE Head(parts) \o join(Tail(parts))

\* String.prototype.toUpperCase on ASCII.
toUpperCase(string) ==
    [i \in DOMAIN string |->
        IF string[i] \in 97..122 THEN string[i] - 32 ELSE string[i]]

\* generateFingerprint(publicKey): SHA-256 of the decoded key, each byte as two
\* hex digits, joined, in upper case.
generateFingerprint(publicKey) ==
    LET keyData == base64ToArrayBuffer(publicKey)
        hash == SHA256(keyData)
        hashArray == Uint8ArrayOf(hash)
    IN  toUpperCase(join([i \in DOMAIN hashArray |->
                             padStart(toString16(hashArray[i]), 2, 48)]))

\* A sendMessage that starts an empty session when the contact has none.
sendMessage_Lazy(e, contactId, plaintext) ==
    LET session == IF HasSession(e, contactId) THEN sessions[e][contactId]
                   ELSE NewSession(Corrupted, NoB64, <<>>)
    IN  /\ sessions' = [sessions EXCEPT ![e] = (contactId :> SendAdvance(session)) @@ @]
        /\ nextIv' = nextIv + 1
        /\ op' = CallReturned("sendMessage", e, contactId,
                           SendResult(session, plaintext, nextIv))

\* sendMessage(contactId, plaintext), the whole method.
sendMessage(e, contactId, plaintext) ==
    IF ~HasSession(e, contactId)
    THEN /\ op' = CallThrown("sendMessage", e, contactId, NoSessionError)
         /\ UNCHANGED <<sessions, nextIv>>
    ELSE LET session == sessions[e][contactId]
         IN  /\ sessions' = [sessions EXCEPT ![e][contactId] = SendAdvance(session)]
             /\ nextIv' = nextIv + 1
             /\ op' = CallReturned("sendMessage", e, contactId,
                                SendResult(session, plaintext, nextIv))

\* A receiveMessage that deletes the session when decryption fails.
receiveMessage_ForgetOnFailure(e, contactId, encryptedData) ==
    IF ~HasSession(e, contactId)
    THEN /\ op' = CallThrown("receiveMessage", e, contactId, NoSessionError)
         /\ UNCHANGED sessions
    ELSE LET session == sessions[e][contactId]
             decrypted == ReceiveResult(session, encryptedData)
         IN  IF decrypted.ok
             THEN /\ sessions' = [sessions EXCEPT ![e][contactId] = ReceiveAdvance(session)]
                  /\ op' = CallReturned("receiveMessage", e, contactId, decrypted.text)
             ELSE /\ sessions' = [sessions EXCEPT ![e] =
                         [c \in DOMAIN sessions[e] \ {contactId} |-> sessions[e][c]]]
                  /\ op' = CallThrown("receiveMessage", e, contactId, decrypted.text)

\* receiveMessage(contactId, encryptedData), the whole method.
receiveMessage(e, contactId, encryptedData) ==
    IF ~HasSession(e, contactId)
    THEN /\ op' = CallThrown("receiveMessage", e, contactId, NoSessionError)
         /\ UNCHANGED sessions
    ELSE LET session == sessions[e][contactId]
             decrypted == ReceiveResult(session, encryptedData)
         IN  /\ sessions' = [sessions EXCEPT ![e][contactId] = ReceiveAdvance(session)]
             /\ op' = IF decrypted.ok
                      THEN CallReturned("receiveMessage", e, contactId, decrypted.text)
                      ELSE CallThrown("receiveMessage", e, contactId, decrypted.text)

ApiRest == <<ratchetVars, calls, tf, clientVars, serverVars>>

ApiGenerateIdentityKeyPair(e) ==
    /\ op.n < MaxOps
    /\ nextKey[e] < MaxKeys
    /\ generateIdentityKeyPair(e)
    /\ op' = CallReturned("generateIdentityKeyPair", e, "", identityKeyPair'[e])
    /\ UNCHANGED <<signedPreKey, oneTimePreKeys, sessions, nextIv, nextSid, ApiRest>>

ApiGenerateSignedPreKey(e) ==
    /\ op.n < MaxOps
    /\ nextKey[e] < MaxKeys
    /\ generateSignedPreKey(e)
    /\ op' = CallReturned("generateSignedPreKey", e, "", signedPreKey'[e])
    /\ UNCHANGED <<identityKeyPair, oneTimePreKeys, sessions, nextIv, nextSid, ApiRest>>

ApiGenerateOneTimePreKeys(e) ==
    /\ op.n < MaxOps
    /\ nextKey[e] + MaxOTPK <= MaxKeys
    /\ generateOneTimePreKeys(e, MaxOTPK)
    /\ op' = CallReturned("generateOneTimePreKeys", e, "", oneTimePreKeys'[e])
    /\ UNCHANGED <<identityKeyPair, signedPreKey, sessions, nextIv, nextSid, ApiRest>>

ApiExportIdentityBundle(e) ==
    /\ op.n < MaxOps
    /\ op' = IF CanExportIdentityBundle(e)
             THEN CallReturned("exportIdentityBundle", e, "", exportIdentityBundle(e))
             ELSE CallThrown("exportIdentityBundle", e, "", GenerateKeysFirst)
    /\ UNCHANGED <<engineVars, ApiRest>>

ApiGenerateFingerprint(e) ==
    /\ op.n < MaxOps
    /\ identityKeyPair[e] # NoKey
    /\ op' = CallReturned("generateFingerprint", e, "",
                       generateFingerprint(exportPublicKey(identityKeyPair[e])))
    /\ UNCHANGED <<engineVars, ApiRest>>

ApiCreateSession(e, contactId, theirOneTimePreKey) ==
    /\ op.n < MaxOps
    /\ IF identityKeyPair[e] = NoKey
       THEN /\ op' = CallThrown("createSession", e, contactId, TypeError)
            /\ UNCHANGED <<signedPreKey, sessions, nextKey, nextSid>>
       ELSE /\ createSession(e, contactId, PeerIdentityKey, PeerSignedPreKey,
                             theirOneTimePreKey)
            /\ op' = CallReturned("createSession", e, contactId,
                               sessions'[e][contactId].ephemeralPublicKey)
    /\ UNCHANGED <<identityKeyPair, oneTimePreKeys, nextIv, ApiRest>>

ApiCreateReceiveSession(e, contactId) ==
    /\ op.n < MaxOps
    /\ IF signedPreKey[e] = NoKey \/ identityKeyPair[e] = NoKey
       THEN /\ op' = CallThrown("createReceiveSession", e, contactId, TypeError)
            /\ UNCHANGED <<sessions, nextSid>>
       ELSE /\ createReceiveSession(e, contactId, PeerIdentityKey, PeerEphemeralKey)
            /\ op' = CallReturned("createReceiveSession", e, contactId, NoResult)
    /\ UNCHANGED <<identityKeyPair, signedPreKey, oneTimePreKeys, nextKey, nextIv, ApiRest>>

ApiSendMessage(e, contactId) ==
    /\ op.n < MaxOps
    /\ sendMessage(e, contactId, Plaintext(1))
    /\ UNCHANGED <<identityKeyPair, signedPreKey, oneTimePreKeys, nextKey, nextSid, ApiRest>>

\* The data handed to receiveMessage: what the engine's own session with the
\* contact would send next (it opens under a receiving chain at the same
\* position of the same root), as sent or changed in transit.
ApiEncryptedData(e, contactId) ==
    LET session == IF HasSession(e, contactId) THEN sessions[e][contactId]
                   ELSE NewSession(Corrupted, NoB64, <<>>)
        m == SendResult(session, Plaintext(1), 0)
        encryptedData == [ciphertext |-> m.ciphertext, iv |-> m.iv]
    IN  {encryptedData, Tamper(encryptedData)}

ApiReceiveMessage(e, contactId) ==
    /\ op.n < MaxOps
    /\ \E encryptedData \in ApiEncryptedData(e, contactId) :
          receiveMessage(e, contactId, encryptedData)
    /\ UNCHANGED <<identityKeyPair, signedPreKey, oneTimePreKeys, nextKey, nextIv, nextSid,
                   ApiRest>>

NextApi ==
    \E e \in ApiEngines :
        \/ ApiGenerateIdentityKeyPair(e)
        \/ ApiGenerateSignedPreKey(e)
        \/ ApiGenerateOneTimePreKeys(e)
        \/ ApiExportIdentityBundle(e)
        \/ ApiGenerateFingerprint(e)
        \/ \E contactId \in ContactIds :
              \/ \E theirOneTimePreKey \in {NoKey, PeerOneTimePreKey} :
                    ApiCreateSession(e, contactId, theirOneTimePreKey)
              \/ ApiCreateReceiveSession(e, contactId)
              \/ ApiSendMessage(e, contactId)
              \/ ApiReceiveMessage(e, contactId)

SpecApi == Init /\ [][NextApi]_vars

\* The last call was a handshake that completed.
HandshakeReturned(call) ==
    call.name \in {"createSession", "createReceiveSession"} /\ call.error = ""

\* C12: sendMessage and receiveMessage for a contact without a session throw
\* the no-session error, return nothing, and change neither the sessions map
\* nor any key material.
C12_NoSessionCallFails ==
    [][(/\ op'.name \in {"sendMessage", "receiveMessage"}
        /\ ~HasSession(op'.engine, op'.contactId))
       => /\ op'.error = NoSessionError
          /\ op'.result = NoResult
          /\ UNCHANGED engineVars]_vars

\* receiveMessage was called for a contact without a session, on an engine that
\* holds keys and a session with another contact.
C12_Witness ==
    /\ op.name = "receiveMessage"
    /\ op.error = NoSessionError
    /\ identityKeyPair[op.engine] # NoKey
    /\ DOMAIN sessions[op.engine] # {}
    /\ ~HasSession(op.engine, op.contactId)

\* C13: an entry is added to the sessions map only by a createSession or
\* createReceiveSession that completes, for the contact it was called with,
\* and no call removes an entry.
C13_OnlyHandshakesEstablish ==
    [][\A e \in Engines :
          /\ DOMAIN sessions[e] \subseteq DOMAIN sessions'[e]
          /\ DOMAIN sessions'[e] # DOMAIN sessions[e]
                => /\ HandshakeReturned(op')
                   /\ op'.engine = e
                   /\ DOMAIN sessions'[e] = DOMAIN sessions[e] \cup {op'.contactId}]_vars

\* A receiveMessage failed to decrypt; the contact's session is still there.
C13_Witness ==
    /\ op.name = "receiveMessage"
    /\ op.error = DecryptFailed
    /\ HasSession(op.engine, op.contactId)

\* C14: right after createSession or createReceiveSession has completed, the
\* contact's sendingChainKey and receivingChainKey equal its rootKey and its
\* messageNumber is 0.
C14_FreshSession ==
    HandshakeReturned(op) =>
        LET session == sessions[op.engine][op.contactId]
        IN  /\ session.sendingChainKey = session.rootKey
            /\ session.receivingChainKey = session.rootKey
            /\ session.messageNumber = 0

\* A handshake has completed on an engine that had completed one before and
\* had sent a message.
C14_Witness ==
    /\ HandshakeReturned(op)
    /\ sessions[op.engine][op.contactId].hist.sid >= 2
    /\ nextIv >= 2

\* C15: a handshake for a contact stores one session for that contact, a new
\* one starting at its own root key with counter 0, in place of any session
\* the contact had; the sessions of all other contacts stay as they were.
C15_HandshakeReplaces ==
    [][HandshakeReturned(op') =>
          LET e == op'.engine
              contactId == op'.contactId
              session == sessions'[e][contactId]
          IN  /\ DOMAIN sessions'[e] = DOMAIN sessions[e] \cup {contactId}
              /\ session.hist.sid = nextSid[e] + 1
              /\ session.sendingChainKey = session.rootKey
              /\ session.receivingChainKey = session.rootKey
              /\ session.messageNumber = 0
              /\ \A c \in DOMAIN sessions[e] \ {contactId} :
                    sessions'[e][c] = sessions[e][c]
              /\ \A e2 \in Engines \ {e} : sessions'[e2] = sessions[e2]]_vars

\* The third handshake of an engine replaced the session its second handshake
\* had stored, while the session of the first, with another contact, was in use.
C15_Witness ==
    /\ HandshakeReturned(op)
    /\ sessions[op.engine][op.contactId].hist.sid = 3
    /\ \E c \in DOMAIN sessions[op.engine] \ {op.contactId} :
          /\ sessions[op.engine][c].hist.sid = 1
          /\ sessions[op.engine][c].messageNumber >= 1

\* C16: a sendMessage or receiveMessage call, whether it returns or throws,
\* leaves the rootKey of every session as the handshake set it.
C16_RootKeyUnchanged ==
    [][op'.name \in {"sendMessage", "receiveMessage"}
       => \A e \in Engines : \A c \in DOMAIN sessions[e] :
             /\ c \in DOMAIN sessions'[e]
             /\ sessions'[e][c].rootKey = sessions[e][c].rootKey]_vars

\* A receiveMessage failed to decrypt on a session that had sent a message and
\* whose receiving chain has moved; its root key differs from both chain keys.
C16_Witness ==
    /\ op.name = "receiveMessage"
    /\ op.error = DecryptFailed
    /\ HasSession(op.engine, op.contactId)
    /\ LET session == sessions[op.engine][op.contactId]
       IN  /\ session.messageNumber >= 1
           /\ session.sendingChainKey # session.rootKey
           /\ session.receivingChainKey # session.rootKey

\* ------------------------------------------------------------------------
\* The message counter, under Spec (each sendMessage completes before the
\* next call starts)
\* ------------------------------------------------------------------------

\* The messages up to wire position n sent by the session object that sent
\* message n.
SentBySameSession(n) ==
    {i \in 1..n : /\ wire[i].from = wire[n].from
                  /\ wire[i].to = wire[n].to
                  /\ wire[i].sid = wire[n].sid}

\* C17: the k-th sendMessage on a session object since its handshake returns
\* messageNumber k, the session's counter is the number of messages it has
\* sent, and while the session object stays in the map its counter never
\* decreases.
C17_CounterCountsSends ==
    /\ [](\A n \in DOMAIN wire :
            wire[n].payload.messageNumber = Cardinality(SentBySameSession(n)))
    /\ [](\A e \in Engines : \A c \in DOMAIN sessions[e] :
            sessions[e][c].messageNumber = Len(Sent(e, c)))
    /\ [][\A e \in Engines : \A c \in DOMAIN sessions[e] :
            (/\ c \in DOMAIN sessions'[e]
             /\ sessions'[e][c].hist.sid = sessions[e][c].hist.sid)
            => sessions'[e][c].messageNumber >= sessions[e][c].messageNumber]_vars

\* A session has sent messages 1 and 2; a later handshake of the same engine
\* for the same contact stored a new session object, which sent its message 1.
C17_Witness ==
    \E i \in DOMAIN wire, j \in DOMAIN wire :
        /\ i < j
        /\ wire[i].from = wire[j].from
        /\ wire[i].to = wire[j].to
        /\ wire[i].sid < wire[j].sid
        /\ wire[i].payload.messageNumber = 2
        /\ wire[j].payload.messageNumber = 1

\* ------------------------------------------------------------------------
\* The sending chain, under SpecConcurrentSend
\* ------------------------------------------------------------------------

\* The chain key n derivation steps after chainKey.
RECURSIVE ChainKDF(_, _)
ChainKDF(chainKey, n) ==
    IF n = 0 THEN chainKey
    ELSE deriveMessageKeys(ChainKDF(chainKey, n - 1)).nextChainKey

\* C18: whatever the interleaving of sendMessage calls, a session's
\* sendingChainKey is its rootKey advanced messageNumber times.
C18_ChainMatchesCounter ==
    \A e \in Engines : \A c \in DOMAIN sessions[e] :
        sessions[e][c].sendingChainKey =
            ChainKDF(sessions[e][c].rootKey, sessions[e][c].messageNumber)

\* ------------------------------------------------------------------------
\* Specification SpecInOrder: the transport hands over each message once and
\* in sending order, as sent or changed in transit; the caller goes on to the
\* next message whether receiveMessage returned or threw.
\* ------------------------------------------------------------------------

\* What may arrive for a message that was sent.
InTransit(payload) ==
    LET encryptedData == [ciphertext |-> payload.ciphertext, iv |-> payload.iv]
    IN  {[data |-> encryptedData, tampered |-> FALSE],
         [data |-> Tamper(encryptedData), tampered |-> TRUE],
         [data |-> TamperIv(encryptedData), tampered |-> TRUE]}

\* e is handed the next message of contactId's session.
ReceiveNext(e, contactId) ==
    /\ ReceiveCalls < MaxRecv
    /\ HasSession(e, contactId)
    /\ Len(recvLog[e][contactId]) < Len(Sent(contactId, e))
    /\ LET w == Sent(contactId, e)[Len(recvLog[e][contactId]) + 1]
       IN  \E arrived \in InTransit(wire[w].payload) :
              LET step == ReceiveStep(sessions[e][contactId], arrived.data)
              IN  /\ sessions' = [sessions EXCEPT ![e][contactId] = step.session]
                  /\ recvLog' = [recvLog EXCEPT ![e][contactId] =
                         Append(@, [w |-> w, ok |-> step.result.ok,
                                    text |-> step.result.text,
                                    tampered |-> arrived.tampered])]
    /\ UNCHANGED <<identityKeyPair, signedPreKey, oneTimePreKeys, nextKey, nextIv,
                   nextSid, bundles, wire>>
    /\ UNCHANGED <<calls, tf, op, clientVars, serverVars>>

NextInOrder ==
    \E e \in Engines :
        \/ Register(e)
        \/ \E c \in Engines :
              \/ CreateSession(e, c)
              \/ CreateReceiveSession(e, c)
              \/ SendMessage(e, c)
              \/ ReceiveNext(e, c)

SpecInOrder == Init /\ [][NextInOrder]_vars

\* C19: after a handshake without one-time pre-key, when b is handed a's
\* messages in sending order, every message changed in transit makes
\* receiveMessage throw the decryption error, and every message that arrives
\* as sent, before or after a changed one, is decrypted to its plaintext.
C19_SkipAndContinue ==
    \A a \in Engines, b \in Engines :
        (/\ Handshaken(a, b)
         /\ sessions[a][b].hist.theirOneTimePreKey = NoKey
         /\ InOrder(b, a))
        => \A j \in DOMAIN recvLog[b][a] :
              IF recvLog[b][a][j].tampered
              THEN /\ ~recvLog[b][a][j].ok
                   /\ recvLog[b][a][j].text = DecryptFailed
              ELSE /\ recvLog[b][a][j].ok
                   /\ recvLog[b][a][j].text = wire[Sent(a, b)[j]].text

\* Of three messages handed over in order, the first was changed in transit
\* and failed; the second and the third arrived as sent and were decrypted.
C19_Witness ==
    \E a \in Engines, b \in Engines :
        /\ Handshaken(a, b)
        /\ sessions[a][b].hist.theirOneTimePreKey = NoKey
        /\ InOrder(b, a)
        /\ Len(recvLog[b][a]) = 3
        /\ recvLog[b][a][1].tampered /\ ~recvLog[b][a][1].ok
        /\ ~recvLog[b][a][2].tampered /\ recvLog[b][a][2].ok
        /\ ~recvLog[b][a][3].tampered /\ recvLog[b][a][3].ok

\* ------------------------------------------------------------------------
\* Message keys of a pair of sessions, under Spec
\* ------------------------------------------------------------------------

\* The wire positions of the messages the two sessions of a handshake between
\* a and b have sent, in either direction.
SentEitherWay(a, b) ==
    {Sent(a, b)[i] : i \in DOMAIN Sent(a, b)} \cup {Sent(b, a)[i] : i \in DOMAIN Sent(b, a)}

\* The key a message on the wire was encrypted under.
MessageKeyOf(w) == base64ToArrayBuffer(wire[w].payload.ciphertext).key

\* C20: no two messages sent by the two sessions of one handshake, in either
\* direction, are encrypted under the same message key.
C20_UniqueMessageKeys ==
    \A a \in Engines, b \in Engines :
        Handshaken(a, b)
        => \A i \in SentEitherWay(a, b), j \in SentEitherWay(a, b) :
              i # j => MessageKeyOf(i) # MessageKeyOf(j)

\* ------------------------------------------------------------------------
\* What a session object gives away, under Spec
\* ------------------------------------------------------------------------

\* key can be computed from known by applying hkdf zero or more times: hkdf is
\* one-way, so exactly the keys further down known's derivation path.
DerivableFrom(known, key) ==
    /\ key.dh = known.dh
    /\ Len(known.path) <= Len(key.path)
    /\ SubSeq(key.path, 1, Len(known.path)) = known.path

\* The key material stored in the fields of a session object.
SessionKeys(session) ==
    {session.rootKey, session.sendingChainKey, session.receivingChainKey}

\* C21: the message key of no message a session has sent can be derived from
\* the fields the session object holds afterwards.
C21_ForwardSecrecy ==
    \A e \in Engines : \A c \in DOMAIN sessions[e] :
        \A i \in DOMAIN Sent(e, c) :
            \A known \in SessionKeys(sessions[e][c]) :
                ~DerivableFrom(known, MessageKeyOf(Sent(e, c)[i]))

\* ------------------------------------------------------------------------
\* Replayed messages, under Spec
\* ------------------------------------------------------------------------

\* C22: a message that a session's receiveMessage has decrypted is not
\* decrypted again by a later receiveMessage of the same session.
C22_NoReplay ==
    \A e \in Engines, c \in Engines :
        \A i \in DOMAIN recvLog[e][c], j \in DOMAIN recvLog[e][c] :
            (/\ i < j
             /\ recvLog[e][c][i].w = recvLog[e][c][j].w
             /\ recvLog[e][c][i].ok)
            => ~recvLog[e][c][j].ok

\* A message was decrypted, then handed over again and rejected.
C22_Witness ==
    \E e \in Engines, c \in Engines :
        /\ Len(recvLog[e][c]) >= 2
        /\ recvLog[e][c][1].w = recvLog[e][c][2].w
        /\ recvLog[e][c][1].ok
        /\ recvLog[e][c][2].text = DecryptFailed

\* ------------------------------------------------------------------------
\* Specification SpecSharedKey: deriveSharedKey of SimpleCrypto, called on
\* pairs of identifiers
\* ------------------------------------------------------------------------

\* "a", "b", "ab"
Identifiers == {<<97>>, <<98>>, <<97, 98>>}

OthersOfSimple == <<engineVars, ratchetVars, calls, tf, op, app, decrypts, fingerprints, web, serverVars>>

ScDeriveSharedKey(username1, username2) ==
    /\ Len(simple.keys) < MaxKeyCalls
    /\ simple' = [simple EXCEPT !.keys =
                     Append(@, [username1 |-> username1, username2 |-> username2,
                                key |-> deriveSharedKey(username1, username2)])]
    /\ UNCHANGED OthersOfSimple

NextSharedKey ==
    \E username1 \in Identifiers, username2 \in Identifiers :
        ScDeriveSharedKey(username1, username2)

SpecSharedKey == Init /\ [][NextSharedKey]_vars

\* C23: two deriveSharedKey calls on the same two identifiers, in the same or
\* in the opposite order, return the same key.
C23_SharedKeyCommutes ==
    \A i \in DOMAIN simple.keys, j \in DOMAIN simple.keys :
        LET c1 == simple.keys[i]
            c2 == simple.keys[j]
        IN  (\/ c1.username1 = c2.username1 /\ c1.username2 = c2.username2
             \/ c1.username1 = c2.username2 /\ c1.username2 = c2.username1)
            => c1.key = c2.key

\* deriveSharedKey was called on two different identifiers, one a prefix of
\* the other, then on the same two in the opposite order, then again as first.
C23_Witness ==
    /\ Len(simple.keys) = 3
    /\ simple.keys[1].username1 = <<97, 98>>
    /\ simple.keys[1].username2 = <<97>>
    /\ simple.keys[2].username1 = <<97>>
    /\ simple.keys[2].username2 = <<97, 98>>
    /\ simple.keys[3].username1 = <<97, 98>>
    /\ simple.keys[3].username2 = <<97>>

\* ------------------------------------------------------------------------
\* Specification SpecSimpleCrypto: two users encrypt messages for each other
\* with SimpleCrypto.encrypt and call decrypt on them, in any order, any
\* number of times, leaving any of them out.
\* ------------------------------------------------------------------------

\* "a", the euro sign, U+1F600 as its surrogate pair, and a high surrogate
\* with no low surrogate after it.
SimpleTexts == {<<97>>, <<8364>>, <<55357, 56832>>, <<55357>>}

ScEncrypt(myUsername, theirUsername, message) ==
    /\ myUsername # theirUsername
    /\ Len(simple.sent) < MaxSimpleMsgs
    /\ simple' = [simple EXCEPT !.sent =
                     Append(@, [from |-> myUsername, to |-> theirUsername,
                                message |-> message,
                                encrypted |-> encrypt(message, myUsername, theirUsername,
                                                      Len(simple.sent) + 1)])]
    /\ UNCHANGED OthersOfSimple

\* One of the two users decrypts message w, naming itself first.
ScDecrypt(w, myUsername) ==
    /\ Len(simple.log) < MaxSimpleCalls
    /\ w \in DOMAIN simple.sent
    /\ myUsername \in {simple.sent[w].from, simple.sent[w].to}
    /\ LET m == simple.sent[w]
           theirUsername == IF myUsername = m.from THEN m.to ELSE m.from
           result == decrypt(m.encrypted.ciphertext, m.encrypted.iv,
                             myUsername, theirUsername)
       IN  simple' = [simple EXCEPT !.log =
                        Append(@, [w |-> w, myUsername |-> myUsername,
                                   ok |-> result.ok, text |-> result.text])]
    /\ UNCHANGED OthersOfSimple

NextSimpleCrypto ==
    \/ \E myUsername \in Usernames, theirUsername \in Usernames, message \in SimpleTexts :
          ScEncrypt(myUsername, theirUsername, message)
    \/ \E w \in 1..MaxSimpleMsgs, myUsername \in Usernames :
          ScDecrypt(w, myUsername)

SpecSimpleCrypto == Init /\ [][NextSimpleCrypto]_vars

\* No surrogate code unit stands without its partner.
RECURSIVE IsWellFormed(_)
IsWellFormed(string) ==
    IF string = <<>> THEN TRUE
    ELSE IF /\ IsHighSurrogate(string[1])
            /\ Len(string) >= 2
            /\ IsLowSurrogate(string[2])
         THEN IsWellFormed(SubSeq(string, 3, Len(string)))
    ELSE /\ ~IsHighSurrogate(string[1])
         /\ ~IsLowSurrogate(string[1])
         /\ IsWellFormed(Tail(string))

\* The string with U+FFFD in place of every surrogate that stands alone.
RECURSIVE ToWellFormed(_)
ToWellFormed(string) ==
    IF string = <<>> THEN <<>>
    ELSE IF /\ IsHighSurrogate(string[1])
            /\ Len(string) >= 2
            /\ IsLowSurrogate(string[2])
         THEN <<string[1], string[2]>> \o ToWellFormed(SubSeq(string, 3, Len(string)))
    ELSE IF IsHighSurrogate(string[1]) \/ IsLowSurrogate(string[1])
         THEN <<65533>> \o ToWellFormed(Tail(string))
    ELSE <<string[1]>> \o ToWellFormed(Tail(string))

OthersOfApp == <<engineVars, ratchetVars, calls, tf, op, simple, decrypts, fingerprints, web, serverVars>>

CurrentUser == <<97>>
ContactUsername == <<98>>

\* A key that is not the shared key of the two users: the message was
\* encrypted by an earlier scheme.
OldKey == hkdf(Combine(<<>>), "MessageKey")

\* The stored forms of a message: as SimpleCrypto.encrypt returned it, with a
\* ciphertext that no longer authenticates, or encrypted under another key.
StoredForms == {"sent", "tampered", "old"}

\* Message id of the conversation as the server returns it; the two users
\* write in turn, and timestamps grow with id.
HistoryItem(id, form) ==
    LET from == IF id % 2 = 1 THEN CurrentUser ELSE ContactUsername
        to == IF id % 2 = 1 THEN ContactUsername ELSE CurrentUser
        encrypted == IF form = "old"
                     THEN encryptMessage(Plaintext(id), OldKey, id)
                     ELSE IF form = "tampered"
                          THEN Tamper(encrypt(Plaintext(id), from, to, id))
                          ELSE encrypt(Plaintext(id), from, to, id)
    IN  [id |-> id, from |-> from, to |-> to,
         encryptedContent |-> encrypted.ciphertext, iv |-> encrypted.iv,
         timestamp |-> id]

\* fetch and response.json() have resolved: data.messages is the history,
\* newest first.
LoadFetched ==
    /\ app.pc \in {"idle", "done"}
    /\ app.loads < MaxLoads
    /\ \E n \in 0..MaxLoad : \E forms \in [1..n -> StoredForms] :
          app' = [app EXCEPT
                    !.pc = "loop",
                    !.data = [k \in 1..n |-> HistoryItem(n + 1 - k, forms[k])],
                    !.i = 1,
                    !.decryptedMessages = <<>>,
                    !.loads = @ + 1]
    /\ UNCHANGED OthersOfApp

\* A loop body that keeps the messages it could not decrypt.
LoopBody_KeepFailed(decryptedMessages, msg) ==
    LET otherUser == IF msg.from = CurrentUser THEN msg.to ELSE msg.from
        plaintext == decrypt(msg.encryptedContent, msg.iv, CurrentUser, otherUser)
    IN  Append(decryptedMessages,
               [id |-> msg.id, from |-> msg.from, text |-> plaintext.text,
                timestamp |-> msg.timestamp])

\* One turn of the for loop: decryptedMessages after it.
LoopBody(decryptedMessages, msg) ==
    LET otherUser == IF msg.from = CurrentUser THEN msg.to ELSE msg.from
        plaintext == decrypt(msg.encryptedContent, msg.iv, CurrentUser, otherUser)
    IN  IF plaintext.ok
        THEN Append(decryptedMessages,
                    [id |-> msg.id, from |-> msg.from, text |-> plaintext.text,
                     timestamp |-> msg.timestamp])
        ELSE decryptedMessages

\* The decrypt of message i has resolved or thrown.
LoadDecrypted ==
    /\ app.pc = "loop"
    /\ app.i <= Len(app.data)
    /\ app' = [app EXCEPT
                 !.decryptedMessages = LoopBody(@, app.data[app.i]),
                 !.i = @ + 1]
    /\ UNCHANGED OthersOfApp

\* The loop is over: setMessages(decryptedMessages.reverse()).
LoadSetMessages ==
    /\ app.pc = "loop"
    /\ app.i > Len(app.data)
    /\ app' = [app EXCEPT !.pc = "done", !.messages = Reverse(app.decryptedMessages)]
    /\ UNCHANGED OthersOfApp

NextLoadMessages == LoadFetched \/ LoadDecrypted \/ LoadSetMessages

SpecLoadMessages == Init /\ [][NextLoadMessages]_vars

\* The current user can decrypt the stored message.
Decryptable(msg) ==
    decrypt(msg.encryptedContent, msg.iv, CurrentUser,
            IF msg.from = CurrentUser THEN msg.to ELSE msg.from).ok

\* The ids of the decryptable messages of the history.
DecryptableIds == {app.data[k].id : k \in {j \in DOMAIN app.data : Decryptable(app.data[j])}}

\* C25: when loadMessages ends, the message list holds exactly the decryptable
\* messages of the history, each once, oldest first, with their plaintexts.
C25_LoadSkipsUndecryptable ==
    app.pc = "done" =>
        /\ {app.messages[k].id : k \in DOMAIN app.messages} = DecryptableIds
        /\ Len(app.messages) = Cardinality(DecryptableIds)
        /\ \A k \in DOMAIN app.messages :
              /\ app.messages[k].text = Plaintext(app.messages[k].id)
              /\ \A j \in DOMAIN app.messages :
                    j < k => app.messages[j].timestamp < app.messages[k].timestamp

\* A second load has ended, on a history of three messages of which the
\* newest and the oldest decrypt and the middle one does not.
C25_Witness ==
    /\ app.pc = "done"
    /\ app.loads = 2
    /\ Len(app.data) = 3
    /\ Decryptable(app.data[1])
    /\ ~Decryptable(app.data[2])
    /\ Decryptable(app.data[3])
    /\ Len(app.messages) = 2
    /\ app.messages[1].id = 1
    /\ app.messages[2].id = 3

\* ------------------------------------------------------------------------
\* Specification SpecDecrypt: decryptMessage (crypto.js) and decrypt
\* (simpleCrypto.js) called on what encryptMessage / encrypt produced for one
\* message, with the ciphertext string, the iv string and the key each as
\* produced or different.
\* ------------------------------------------------------------------------

\* The message key of the encrypting side and another key of the same chain.
EncryptingKey == deriveMessageKeys(Combine(<<>>)).messageKey
OtherKey == deriveMessageKeys(deriveMessageKeys(Combine(<<>>)).nextChainKey).messageKey

\* What the two schemes produce for the text "a" with IV 1.
Produced(fn) ==
    IF fn = "decryptMessage"
    THEN encryptMessage(Plaintext(1), EncryptingKey, 1)
    ELSE encrypt(Plaintext(1), CurrentUser, ContactUsername, 1)

\* The strings a caller may pass in place of a base64 string that was
\* produced: the same string, another spelling of the same bytes, a string of
\* other bytes, a string that is not base64.
StringForms == {"produced", "respelled", "changed", "invalid"}

CiphertextArg(form, ciphertext) ==
    IF form = "produced" THEN ciphertext
    ELSE IF form = "respelled" THEN Respell(ciphertext)
    ELSE IF form = "changed"
         THEN arrayBufferToBase64([base64ToArrayBuffer(ciphertext) EXCEPT !.key = Corrupted])
    ELSE InvalidBase64

IvArg(form, iv) ==
    IF form = "produced" THEN iv
    ELSE IF form = "respelled" THEN Respell(iv)
    ELSE IF form = "changed" THEN arrayBufferToBase64(base64ToArrayBuffer(iv) + 1)
    ELSE InvalidBase64

\* One call: decryptMessage with the encrypting key or another message key,
\* decrypt with the two identifiers or with another pair.
DecryptCall(fn, ciphertextForm, ivForm, rightKey) ==
    /\ Len(decrypts) < MaxDecrypts
    /\ LET produced == Produced(fn)
           ciphertext == CiphertextArg(ciphertextForm, produced.ciphertext)
           iv == IvArg(ivForm, produced.iv)
           result ==
               IF fn = "decryptMessage"
               THEN decryptMessage([ciphertext |-> ciphertext, iv |-> iv],
                                   IF rightKey THEN EncryptingKey ELSE OtherKey)
               ELSE decrypt(ciphertext, iv, ContactUsername,
                            IF rightKey THEN CurrentUser ELSE ContactUsername)
       IN  decrypts' = Append(decrypts,
                              [fn |-> fn, ciphertext |-> ciphertext, iv |-> iv,
                               rightKey |-> rightKey, ok |-> result.ok,
                               text |-> result.text])
    /\ UNCHANGED <<engineVars, ratchetVars, calls, tf, op, simple, app, fingerprints, web, serverVars>>

NextDecrypt ==
    \E fn \in {"decryptMessage", "decrypt"}, ciphertextForm \in StringForms,
       ivForm \in StringForms, rightKey \in BOOLEAN :
        DecryptCall(fn, ciphertextForm, ivForm, rightKey)

SpecDecrypt == Init /\ [][NextDecrypt]_vars

\* C26 as stated: a call whose ciphertext string or iv string differs from
\* what was produced, or whose key is not the encrypting key, ends in an
\* error.
C26_AnyDifferenceFails ==
    \A k \in DOMAIN decrypts :
        LET call == decrypts[k]
            produced == Produced(call.fn)
        IN  (\/ call.ciphertext # produced.ciphertext
             \/ call.iv # produced.iv
             \/ ~call.rightKey)
            => ~call.ok

\* The strings passed decode to the bytes that were produced.
SameBytes(call) ==
    /\ IsBase64(call.ciphertext)
    /\ IsBase64(call.iv)
    /\ base64ToArrayBuffer(call.ciphertext) =
           base64ToArrayBuffer(Produced(call.fn).ciphertext)
    /\ base64ToArrayBuffer(call.iv) = base64ToArrayBuffer(Produced(call.fn).iv)

\* C26 amended: a call ends in an error, and returns no plaintext, when its
\* ciphertext or iv is not base64 or decodes to other bytes than were
\* produced, or when its key is not the encrypting key; a call whose strings
\* decode to the produced bytes, spelled as produced or not, returns the
\* original plaintext under the encrypting key.
C26_ChangedBytesFail ==
    \A k \in DOMAIN decrypts :
        LET call == decrypts[k]
        IN  IF SameBytes(call) /\ call.rightKey
            THEN call.ok /\ call.text = Plaintext(1)
            ELSE /\ ~call.ok
                 /\ call.text \in {DecryptFailed, SimpleDecryptFailed,
                                   InvalidCharacterError}

\* decrypt was called with the produced ciphertext and an iv of other bytes,
\* and decryptMessage with a respelled ciphertext and the encrypting key.
C26_Witness ==
    /\ Len(decrypts) = 2
    /\ decrypts[1].fn = "decrypt"
    /\ decrypts[1].ciphertext = Produced("decrypt").ciphertext
    /\ decrypts[1].iv = IvArg("changed", Produced("decrypt").iv)
    /\ decrypts[1].rightKey
    /\ ~decrypts[1].ok
    /\ decrypts[2].fn = "decryptMessage"
    /\ decrypts[2].ciphertext = Respell(Produced("decryptMessage").ciphertext)
    /\ decrypts[2].rightKey
    /\ decrypts[2].ok

\* ------------------------------------------------------------------------
\* Specification SpecExport: the key ring of one engine and
\* exportIdentityBundle, with pools smaller and larger than a bundle
\* ------------------------------------------------------------------------

\* The counts generateOneTimePreKeys is called with.
PoolCounts == {0, 1, BundleOneTimePreKeys, BundleOneTimePreKeys + 1}

ExGenerateIdentityKeyPair(e) ==
    /\ op.n < MaxExportOps
    /\ generateIdentityKeyPair(e)
    /\ op' = CallReturned("generateIdentityKeyPair", e, "", identityKeyPair'[e])
    /\ UNCHANGED <<signedPreKey, oneTimePreKeys, sessions, nextIv, nextSid, ApiRest>>

ExGenerateSignedPreKey(e) ==
    /\ op.n < MaxExportOps
    /\ generateSignedPreKey(e)
    /\ op' = CallReturned("generateSignedPreKey", e, "", signedPreKey'[e])
    /\ UNCHANGED <<identityKeyPair, oneTimePreKeys, sessions, nextIv, nextSid, ApiRest>>

ExGenerateOneTimePreKeys(e, count) ==
    /\ op.n < MaxExportOps
    /\ generateOneTimePreKeys(e, count)
    /\ op' = CallReturned("generateOneTimePreKeys", e, "", oneTimePreKeys'[e])
    /\ UNCHANGED <<identityKeyPair, signedPreKey, sessions, nextIv, nextSid, ApiRest>>

ExExportIdentityBundle(e) ==
    /\ op.n < MaxExportOps
    /\ op' = IF CanExportIdentityBundle(e)
             THEN CallReturned("exportIdentityBundle", e, "", exportIdentityBundle(e))
             ELSE CallThrown("exportIdentityBundle", e, "", GenerateKeysFirst)
    /\ UNCHANGED <<engineVars, ApiRest>>

NextExport ==
    \E e \in ApiEngines :
        \/ ExGenerateIdentityKeyPair(e)
        \/ ExGenerateSignedPreKey(e)
        \/ \E count \in PoolCounts : ExGenerateOneTimePreKeys(e, count)
        \/ ExExportIdentityBundle(e)

SpecExport == Init /\ [][NextExport]_vars

\* C27: exportIdentityBundle throws and changes nothing when the identity key
\* pair or the signed pre-key is missing; otherwise it returns the identity
\* public key, the signed pre-key public key and the public keys of the first
\* min(10, pool size) one-time pre-keys, in pool order.
C27_ExportBundle ==
    [][op'.name = "exportIdentityBundle" =>
          LET e == op'.engine
              pool == oneTimePreKeys[e]
          IN  IF identityKeyPair[e] = NoKey \/ signedPreKey[e] = NoKey
              THEN /\ op'.error = GenerateKeysFirst
                   /\ op'.result = NoResult
                   /\ UNCHANGED engineVars
              ELSE /\ op'.error = ""
                   /\ op'.result.identityKey = exportPublicKey(identityKeyPair[e])
                   /\ op'.result.signedPreKey = exportPublicKey(signedPreKey[e])
                   /\ Len(op'.result.oneTimePreKeys) = Min(BundleOneTimePreKeys, Len(pool))
                   /\ \A i \in DOMAIN op'.result.oneTimePreKeys :
                         op'.result.oneTimePreKeys[i] = exportPublicKey(pool[i])]_vars

\* A bundle was exported from a pool of eleven one-time pre-keys.
C27_Witness ==
    /\ op.name = "exportIdentityBundle"
    /\ op.error = ""
    /\ Len(oneTimePreKeys[op.engine]) = BundleOneTimePreKeys + 1
    /\ Len(op.result.oneTimePreKeys) = BundleOneTimePreKeys

\* ------------------------------------------------------------------------
\* The key ring across createSession, under SpecApi
\* ------------------------------------------------------------------------

\* C28: a createSession call that completes leaves the engine's
\* identityKeyPair and signedPreKey the key pairs they were before the call.
C28_CreateSessionKeepsKeyRing ==
    [][(op'.name = "createSession" /\ op'.error = "")
       => /\ identityKeyPair'[op'.engine] = identityKeyPair[op'.engine]
          /\ signedPreKey'[op'.engine] = signedPreKey[op'.engine]]_vars

\* ------------------------------------------------------------------------
\* generateFingerprint, called on keys of an engine that has keys and sessions
\* ------------------------------------------------------------------------

FpRest == <<ratchetVars, calls, tf, simple, app, decrypts, web, serverVars>>

FpGenerateIdentityKeyPair(e) ==
    /\ op.n < MaxFpOps
    /\ generateIdentityKeyPair(e)
    /\ op' = CallReturned("generateIdentityKeyPair", e, "", identityKeyPair'[e])
    /\ UNCHANGED <<signedPreKey, oneTimePreKeys, sessions, nextIv, nextSid>>
    /\ UNCHANGED <<fingerprints, FpRest>>

FpCreateSession(e, contactId) ==
    /\ op.n < MaxFpOps
    /\ createSession(e, contactId, PeerIdentityKey, PeerSignedPreKey, NoKey)
    /\ op' = CallReturned("createSession", e, contactId,
                          sessions'[e][contactId].ephemeralPublicKey)
    /\ UNCHANGED <<identityKeyPair, oneTimePreKeys, nextIv>>
    /\ UNCHANGED <<fingerprints, FpRest>>

\* The keys the application shows fingerprints of: the engine's own identity
\* key and a contact's identity key.
FingerprintedKeys(e) == {identityKeyPair[e], PeerIdentityKey} \ {NoKey}

\* One call, on the string exportPublicKey gave or on another spelling of it.
FpGenerateFingerprint(e, key, respelled) ==
    /\ Len(fingerprints) < MaxFingerprints
    /\ key \in FingerprintedKeys(e)
    /\ LET exported == exportPublicKey(key)
           publicKey == IF respelled THEN Respell(exported) ELSE exported
           result == generateFingerprint(publicKey)
       IN  /\ fingerprints' = Append(fingerprints,
                                     [publicKey |-> publicKey, result |-> result])
           /\ op' = CallReturned("generateFingerprint", e, "", result)
    /\ UNCHANGED <<engineVars, FpRest>>

NextFingerprint ==
    \E e \in ApiEngines :
        \/ FpGenerateIdentityKeyPair(e)
        \/ \E contactId \in ContactIds : FpCreateSession(e, contactId)
        \/ \E key \in FingerprintedKeys(e), respelled \in BOOLEAN :
              FpGenerateFingerprint(e, key, respelled)

SpecFingerprint == Init /\ [][NextFingerprint]_vars

UpperCaseHex == (48..57) \cup (65..70)

\* Two calls on the same key bytes returned the same string, and every string
\* returned has 64 characters, each an upper-case hex digit.
FingerprintsStable ==
    /\ \A i \in DOMAIN fingerprints, j \in DOMAIN fingerprints :
          base64ToArrayBuffer(fingerprints[i].publicKey)
             = base64ToArrayBuffer(fingerprints[j].publicKey)
          => fingerprints[i].result = fingerprints[j].result
    /\ \A i \in DOMAIN fingerprints :
          /\ Len(fingerprints[i].result) = 2 * DigestLength
          /\ \A k \in DOMAIN fingerprints[i].result :
                fingerprints[i].result[k] \in UpperCaseHex

\* C29: generateFingerprint is a function of the public key bytes: calls on the
\* same key return the same string of 64 upper-case hex characters, and a call
\* changes no key and no session of the engine.
C29_FingerprintStable ==
    [][fingerprints' # fingerprints
       => /\ UNCHANGED engineVars
          /\ FingerprintsStable']_vars

\* The same key was fingerprinted twice, once from another spelling of its
\* base64 string, by an engine that holds a session; the digest has a byte
\* below 16 (a padded digit) and a byte with a letter digit.
C29_Witness ==
    /\ Len(fingerprints) >= 2
    /\ fingerprints[1].publicKey # fingerprints[2].publicKey
    /\ base64ToArrayBuffer(fingerprints[1].publicKey)
          = base64ToArrayBuffer(fingerprints[2].publicKey)
    /\ fingerprints[1].result = fingerprints[2].result
    /\ \E e \in ApiEngines : DOMAIN sessions[e] # {}
    /\ \E b \in DOMAIN Uint8ArrayOf(SHA256(base64ToArrayBuffer(fingerprints[1].publicKey))) :
          Uint8ArrayOf(SHA256(base64ToArrayBuffer(fingerprints[1].publicKey)))[b] < 16
    /\ \E k \in DOMAIN fingerprints[1].result : fingerprints[1].result[k] \in 65..70

\* ------------------------------------------------------------------------
\* The DH terms of the two root keys, under Spec
\* ------------------------------------------------------------------------

\* DH(X, Y) of the handshake's description: X the local key pair, Y the
\* peer's public key.
DH(ownKeyPair, theirPublicKey) == DeriveBitsECDH(theirPublicKey, ownKeyPair)

\* C30: the responder's root key is derived from DH(SPK_B, IK_A),
\* DH(IK_B, EK_A), DH(SPK_B, EK_A) in this order and from nothing else; the
\* initiator's from DH(IK_A, SPK_B), DH(EK_A, IK_B), DH(EK_A, SPK_B) and, as a
\* fourth term, DH(EK_A, OPK_B) exactly when a one-time pre-key was passed.
C30_RootKeyTerms ==
    \A e \in Engines : \A contactId \in DOMAIN sessions[e] :
        LET session == sessions[e][contactId]
            h == session.hist
            ek == importPublicKey(session.ephemeralPublicKey)
        IN  /\ session.rootKey.path = <<"RootKey">>
            /\ h.role = "responder" =>
                  session.rootKey.dh =
                     <<DH(h.ownSignedPreKey, h.theirIdentityKey),
                       DH(h.ownIdentity, h.theirEphemeralKey),
                       DH(h.ownSignedPreKey, h.theirEphemeralKey)>>
            /\ h.role = "initiator" =>
                  session.rootKey.dh =
                     <<DH(h.ownIdentity, h.theirSignedPreKey),
                       DH(ek, h.theirIdentityKey),
                       DH(ek, h.theirSignedPreKey)>>
                     \o (IF h.theirOneTimePreKey # NoKey
                         THEN <<DH(ek, h.theirOneTimePreKey)>>
                         ELSE <<>>)

\* alice initiated with bob's one-time pre-key (four terms) and bob answered
\* (three terms).
C30_Witness ==
    /\ HasSession("alice", "bob")
    /\ HasSession("bob", "alice")
    /\ sessions["alice"]["bob"].hist.role = "initiator"
    /\ sessions["alice"]["bob"].hist.theirOneTimePreKey # NoKey
    /\ Len(sessions["alice"]["bob"].rootKey.dh) = 4
    /\ sessions["bob"]["alice"].hist.role = "responder"
    /\ Len(sessions["bob"]["alice"].rootKey.dh) = 3

\* ------------------------------------------------------------------------
\* Traffic in both directions of one session pair, under Spec
\* ------------------------------------------------------------------------

\* Every receiveMessage of b on a's messages so far returned what a sent.
AllReturned(b, a) ==
    \A j \in DOMAIN recvLog[b][a] :
        /\ recvLog[b][a][j].ok
        /\ recvLog[b][a][j].text = wire[Sent(a, b)[j]].text

\* In a pair that converged, with each direction handed over in sending order
\* and nothing missing, every receiveMessage on either side has returned the
\* plaintext that was sent.
BothDirectionsReturn ==
    \A a \in Engines, b \in Engines :
        (/\ Handshaken(a, b)
         /\ sessions[a][b].rootKey = sessions[b][a].rootKey
         /\ InOrder(b, a)
         /\ InOrder(a, b))
        => AllReturned(b, a) /\ AllReturned(a, b)

\* C31: traffic of the two directions may interleave in any way: with each
\* direction received in sending order every receiveMessage returns the
\* original plaintext; a sendMessage leaves the local receiving chain where it
\* was, and a receiveMessage leaves the local sending chain and counter.
C31_DirectionsIndependent ==
    [][/\ BothDirectionsReturn'
       /\ \A e \in Engines, c \in Engines :
            (/\ HasSession(e, c)
             /\ c \in DOMAIN sessions'[e]
             /\ sessions'[e][c].hist.sid = sessions[e][c].hist.sid)
            => /\ wire' # wire =>
                    sessions'[e][c].receivingChainKey = sessions[e][c].receivingChainKey
               /\ recvLog' # recvLog =>
                    /\ sessions'[e][c].sendingChainKey = sessions[e][c].sendingChainKey
                    /\ sessions'[e][c].messageNumber = sessions[e][c].messageNumber]_vars

\* alice sent, then bob sent, then alice received bob's message and bob
\* alice's: each side has sent and received on the same session.
C31_Witness ==
    /\ Handshaken("alice", "bob")
    /\ Len(wire) >= 2
    /\ wire[1].from = "alice"
    /\ wire[2].from = "bob"
    /\ Len(recvLog["alice"]["bob"]) >= 1
    /\ Len(recvLog["bob"]["alice"]) >= 1
    /\ InOrder("alice", "bob")
    /\ InOrder("bob", "alice")
    /\ AllReturned("alice", "bob")
    /\ AllReturned("bob", "alice")

\* ------------------------------------------------------------------------
\* The receiving chain across a receiveMessage that throws, under Spec
\* ------------------------------------------------------------------------

\* C32: a receiveMessage call on an existing session that fails to decrypt
\* leaves the session's receivingChainKey as it was before the call.
C32_FailedReceiveKeepsChain ==
    [][\A e \in Engines, c \in Engines :
          (/\ HasSession(e, c)
           /\ Len(recvLog'[e][c]) = Len(recvLog[e][c]) + 1
           /\ ~recvLog'[e][c][Len(recvLog'[e][c])].ok)
          => sessions'[e][c].receivingChainKey = sessions[e][c].receivingChainKey]_vars

\* ------------------------------------------------------------------------
\* Specification SpecKeySeparation: deriveSharedKey called on usernames that
\* contain the separator text (registration accepts any string)
\* ------------------------------------------------------------------------

\* "a", "c", "a:secret:b", "b:secret:c"
SeparatedNames ==
    {<<97>>, <<99>>, <<97>> \o SecretSeparator \o <<98>>,
     <<98>> \o SecretSeparator \o <<99>>}

NextKeySeparation ==
    \E username1 \in SeparatedNames, username2 \in SeparatedNames :
        ScDeriveSharedKey(username1, username2)

SpecKeySeparation == Init /\ [][NextKeySeparation]_vars

\* C33: two deriveSharedKey calls on different unordered pairs of usernames
\* return different keys, whatever characters the usernames contain.
C33_PairsSeparate ==
    \A i \in DOMAIN simple.keys, j \in DOMAIN simple.keys :
        LET c1 == simple.keys[i]
            c2 == simple.keys[j]
        IN  {c1.username1, c1.username2} # {c2.username1, c2.username2}
            => c1.key # c2.key

\* ------------------------------------------------------------------------
\* Specification SpecSocket: server.js, the WebSocket handlers together with
\* the routes that store and return messages.  Connections open,
\* authenticate, send mark_read and close in any order.
\* ------------------------------------------------------------------------

\* let username = null: a connection that has not authenticated; also the
\* outcome of jwt.verify on a token that does not verify.
NoUsername == <<>>

\* wss.on('connection').
WsConnect ==
    /\ Len(sockets) < MaxSockets
    /\ wsEvents < MaxWsEvents
    /\ sockets' = Append(sockets, [readyState |-> OPEN, username |-> NoUsername])
    /\ wsEvents' = wsEvents + 1
    /\ UNCHANGED <<users, messages, requests, responses, clients, OthersOfServer>>

\* case 'authenticate': user is what jwt.verify yields for message.token.  A
\* token that fails is answered with an error and ws.close(); one that
\* verifies sets the closure's username and clients[username] to this
\* connection (the status broadcast writes no state).
WsAuthenticate(ws, user) ==
    /\ ws \in DOMAIN sockets
    /\ sockets[ws].readyState = OPEN
    /\ wsEvents < MaxWsEvents
    /\ wsEvents' = wsEvents + 1
    /\ IF user = NoUsername
       THEN /\ sockets' = [sockets EXCEPT ![ws].readyState = CLOSING]
            /\ UNCHANGED clients
       ELSE /\ sockets' = [sockets EXCEPT ![ws].username = user]
            /\ clients' = (user :> ws) @@ clients
    /\ UNCHANGED <<users, messages, requests, responses, OthersOfServer>>

\* ws.on('close'): if (username) clients.delete(username).
CloseDeletes(ws) == sockets[ws].username # NoUsername

\* The close event of a connection: the peer went away, or ws.close() was
\* called before.
WsClose(ws) ==
    /\ ws \in DOMAIN sockets
    /\ sockets[ws].readyState \in {OPEN, CLOSING}
    /\ wsEvents < MaxWsEvents
    /\ wsEvents' = wsEvents + 1
    /\ sockets' = [sockets EXCEPT ![ws].readyState = CLOSED]
    /\ clients' = IF CloseDeletes(ws)
                  THEN [u \in DOMAIN clients \ {sockets[ws].username} |-> clients[u]]
                  ELSE clients
    /\ UNCHANGED <<users, messages, requests, responses, OthersOfServer>>

\* case 'mark_read': Message.updateMany({_id: {$in: messageIds}}, {read: true}),
\* whatever the connection and whoever the messages are for.
MayMarkRead(ws, id) == TRUE

\* The handler of a mark_read frame (its notification to the sender writes
\* no state).
WsMarkRead(ws, messageIds) ==
    /\ ws \in DOMAIN sockets
    /\ sockets[ws].readyState = OPEN
    /\ wsEvents < MaxWsEvents
    /\ wsEvents' = wsEvents + 1
    /\ messages' = [id \in DOMAIN messages |->
                       IF id \in messageIds /\ MayMarkRead(ws, id)
                       THEN [messages[id] EXCEPT
                                !.read = TRUE,
                                !.readBy = @ \cup {sockets[ws].username}]
                       ELSE messages[id]]
    /\ UNCHANGED <<users, requests, responses, sockets, clients, OthersOfServer>>

\* Message.find({$or: ...}): the ids of the stored messages between the two.
Conversation(currentUser, contactUsername) ==
    {id \in DOMAIN messages :
        \/ messages[id].from = currentUser /\ messages[id].to = contactUsername
        \/ messages[id].from = contactUsername /\ messages[id].to = currentUser}

\* .sort({timestamp: -1}): the orders of ids the sort may produce (equal
\* timestamps come in either order).
SortedDescending(ids) ==
    {order \in [1..Cardinality(ids) -> ids] :
        /\ \A i, j \in DOMAIN order : i # j => order[i] # order[j]
        /\ \A i, j \in DOMAIN order :
              i < j => messages[order[i]].timestamp >= messages[order[j]].timestamp}

\* .limit(limit).skip(skip): skip first, then at most limit documents.
Window(order, limit, skip) ==
    SubSeq(order, skip + 1, Min(Len(order), skip + limit))

\* A history route that returns every stored message.
Find_All(currentUser, contactUsername) == DOMAIN messages

Find(currentUser, contactUsername) == Conversation(currentUser, contactUsername)

\* GET /api/messages/:contactUsername.  currentUser is the username of the
\* verified token; NoUsername stands for a request whose token is missing
\* (401) or does not verify (403), which authenticateToken answers itself.
GetMessages(currentUser, contactUsername, limit, skip) ==
    /\ Len(SelectSeq(responses, LAMBDA r : r.route = "messages")) < MaxFetches
    /\ currentUser # NoUsername => currentUser \in DOMAIN users
    /\ IF currentUser = NoUsername
       THEN \E status \in {401, 403} :
              responses' = Append(responses,
                [route |-> "messages", status |-> status, requester |-> currentUser,
                 username |-> contactUsername, oneTimePreKey |-> Null,
                 sequential |-> TRUE, messageId |-> 0, messages |-> <<>>])
       ELSE \E order \in SortedDescending(Find(currentUser, contactUsername)) :
              responses' = Append(responses,
                [route |-> "messages", status |-> 200, requester |-> currentUser,
                 username |-> contactUsername, oneTimePreKey |-> Null,
                 sequential |-> TRUE, messageId |-> 0,
                 messages |-> [k \in DOMAIN Window(order, limit, skip) |->
                                  [id |-> Window(order, limit, skip)[k]]
                                  @@ messages[Window(order, limit, skip)[k]]]])
    /\ UNCHANGED <<users, messages, requests, socketVars, OthersOfServer>>

NextSocket ==
    \/ \E username \in Usernames : RegisterUser(username, 0)
    \/ WsConnect
    \/ \E ws \in 1..MaxSockets, user \in DOMAIN users \cup {NoUsername} :
          WsAuthenticate(ws, user)
    \/ \E ws \in 1..MaxSockets : WsClose(ws)
    \/ \E ws \in 1..MaxSockets, id \in DOMAIN messages : WsMarkRead(ws, {id})
    \/ \E from \in Usernames, to \in Usernames : PostSend(from, from, to, Len(messages) + 1)

SpecSocket == Init /\ [][NextSocket]_vars

\* ------------------------------------------------------------------------
\* Specification SpecDelivery: "a" sends to "b", naming itself or "b" as the
\* sender in the body, before and after "b" registers, while "b" connects,
\* authenticates, disconnects, marks messages read and fetches the history.
\* ------------------------------------------------------------------------
NextDelivery ==
    \/ \E username \in Usernames : RegisterUser(username, 0)
    \/ WsConnect
    \/ \E ws \in 1..MaxSockets, user \in (DOMAIN users \cap {<<98>>}) \cup {NoUsername} :
          WsAuthenticate(ws, user)
    \/ \E ws \in 1..MaxSockets : WsClose(ws)
    \/ \E ws \in 1..MaxSockets, id \in DOMAIN messages : WsMarkRead(ws, {id})
    \/ \E bodyFrom \in Usernames : PostSend(<<97>>, bodyFrom, <<98>>, Len(messages) + 1)
    \/ GetMessages(<<98>>, <<97>>, DefaultLimit, 0)

SpecDelivery == Init /\ [][NextDelivery]_vars

\* ------------------------------------------------------------------------
\* Specification SpecHistory: three accounts send to each other, two messages
\* may fall into the same millisecond, and the history of one conversation is
\* fetched with and without a valid token, in windows of several sizes.
\* ------------------------------------------------------------------------

\* "a", "b", "c"
Accounts == Usernames \cup {<<99>>}

\* Who sends to whom: the two directions of the conversation fetched, and a
\* conversation of each of its two users with the third account.
Senders == {<<<<97>>, <<98>>>>, <<<<98>>, <<97>>>>, <<<<97>>, <<99>>>>, <<<<99>>, <<98>>>>}

\* Date.now() of a new message: the millisecond of the last one or a later one.
Now == IF messages = <<>> THEN {1}
       ELSE {messages[Len(messages)].timestamp, messages[Len(messages)].timestamp + 1}

NextHistory ==
    \/ \E username \in Accounts : RegisterUser(username, 0)
    \/ \E pair \in Senders, timestamp \in Now :
          PostSend(pair[1], pair[1], pair[2], timestamp)
    \/ \E limit \in {1, DefaultLimit}, skip \in {0, 1} :
          GetMessages(<<97>>, <<98>>, limit, skip)
    \/ GetMessages(NoUsername, <<98>>, DefaultLimit, 0)

SpecHistory == Init /\ [][NextHistory]_vars

\* C34: a user with an open connection that authenticated as that user has an
\* entry in clients that points to an open connection.
C34_OnlineUsersRoutable ==
    \A ws \in DOMAIN sockets :
        (sockets[ws].readyState = OPEN /\ sockets[ws].username # NoUsername)
        => Online(sockets[ws].username)

\* C35: a message's read flag is set only by mark_read frames that arrived on
\* connections authenticated as the message's recipient.
C35_ReadReceiptsAuthorized ==
    \A id \in DOMAIN messages :
        messages[id].read => messages[id].readBy \subseteq {messages[id].to}

\* The response a step has just added to responses, if it added one.
Responded == Len(responses') = Len(responses) + 1
LastResponse == responses'[Len(responses')]

\* C36: a send request to a recipient that exists stores one message whose
\* from is the username of the request's verified token, and every frame
\* pushed for it carries that from; a send request to a recipient that does
\* not exist is answered 404 and stores and pushes nothing.
C36_SenderFromToken ==
    [][(Responded /\ LastResponse.route = "send") =>
          IF LastResponse.username \in DOMAIN users
          THEN /\ LastResponse.status = 201
               /\ Len(messages') = Len(messages) + 1
               /\ LastResponse.messageId = Len(messages')
               /\ messages'[Len(messages')].from = LastResponse.requester
               /\ \A frame \in messages'[Len(messages')].pushed :
                     frame.from = LastResponse.requester
               /\ \A id \in DOMAIN messages : messages'[id] = messages[id]
          ELSE /\ LastResponse.status = 404
               /\ messages' = messages]_vars

\* "a" sent to "b" before "b" had registered (404, nothing stored) and again
\* after "b" had registered and authenticated on a connection (stored and
\* pushed, from "a").
C36_Witness ==
    /\ Len(responses) >= 2
    /\ responses[1].route = "send" /\ responses[1].status = 404
    /\ responses[2].route = "send" /\ responses[2].status = 201
    /\ Len(messages) = 1
    /\ messages[1].from = <<97>>
    /\ messages[1].pushed # {}

\* C37: a message is stored with delivered = true only if, when its send
\* request was handled, clients held an open connection for the recipient and
\* the message was pushed on it; no later step changes the delivered flag of
\* a stored message.
C37_DeliveredOnlyWhenPushed ==
    [][/\ \A id \in DOMAIN messages : messages'[id].delivered = messages[id].delivered
       /\ \A id \in DOMAIN messages' \ DOMAIN messages :
             messages'[id].delivered =>
                /\ Online(messages'[id].to)
                /\ messages'[id].pushed =
                      {[ws |-> clients[messages'[id].to], from |-> messages'[id].from]}]_vars

\* The first message was stored while "b" had no connection; "b" then
\* connected, authenticated, fetched the history and marked the message read:
\* it is still not delivered.  The second message, sent while "b" was
\* connected, is delivered.
C37_Witness ==
    /\ Len(messages) = 2
    /\ ~messages[1].delivered
    /\ messages[1].pushed = {}
    /\ messages[1].read
    /\ messages[2].delivered
    /\ Online(<<98>>)
    /\ \E k \in DOMAIN responses :
          /\ responses[k].route = "messages"
          /\ Len(responses[k].messages) = 1
          /\ ~responses[k].messages[1].delivered

\* C38: a history request with a valid token is answered with messages between
\* the token's user and the contact only, each a stored message, none twice,
\* newest first; a request without a valid token is answered with no message.
C38_HistoryIsolated ==
    \A k \in DOMAIN responses :
        responses[k].route = "messages" =>
            LET r == responses[k]
            IN  IF r.requester = NoUsername
                THEN r.status \in {401, 403} /\ r.messages = <<>>
                ELSE /\ r.status = 200
                     /\ \A i \in DOMAIN r.messages :
                           LET m == r.messages[i]
                           IN  /\ \/ m.from = r.requester /\ m.to = r.username
                                  \/ m.from = r.username /\ m.to = r.requester
                               /\ m.id \in DOMAIN messages
                               /\ m.from = messages[m.id].from
                               /\ m.to = messages[m.id].to
                               /\ m.encryptedContent = messages[m.id].encryptedContent
                               /\ \A j \in DOMAIN r.messages :
                                     /\ i < j => m.timestamp >= r.messages[j].timestamp
                                     /\ i # j => m.id # r.messages[j].id

\* "a" fetched its conversation with "b" and got both directions, two
\* messages of the same millisecond, while a message between "a" and "c" was
\* stored as well.
C38_Witness ==
    /\ \E id \in DOMAIN messages : <<99>> \in {messages[id].from, messages[id].to}
    /\ \E k \in DOMAIN responses :
          /\ responses[k].route = "messages"
          /\ responses[k].status = 200
          /\ Len(responses[k].messages) = 2
          /\ responses[k].messages[1].from # responses[k].messages[2].from
          /\ responses[k].messages[1].timestamp = responses[k].messages[2].timestamp

\* ------------------------------------------------------------------------
\* Specification SpecRefresh: POST /api/users/refresh-keys by user "a", with
\* key fetches for "a" and "b" and refreshes in flight at the same time.
\* ------------------------------------------------------------------------

\* Request bodies: no key, one or two keys the user never registered, a key
\* the user registered with.
Supplied(username) ==
    {<<>>,
     <<[owner |-> username, n |-> MaxPool + 1]>>,
     <<[owner |-> username, n |-> MaxPool + 1], [owner |-> username, n |-> MaxPool + 2]>>,
     <<[owner |-> username, n |-> 1]>>}

NextRefresh ==
    \/ \E username \in Usernames, n \in 0..MaxPool : RegisterUser(username, n)
    \/ \E username \in Usernames : KeysFindOne(<<98>>, username)
    \/ \E k \in 1..MaxRequests : KeysRespond(k)
    \/ \E bodyKeys \in Supplied(<<97>>) : RefreshFindOne(<<97>>, bodyKeys)
    \/ \E k \in 1..MaxRequests : RefreshRespond(k)

SpecRefresh == Init /\ [][NextRefresh]_vars

\* The step answers a refresh request.
RefreshAnswered ==
    /\ Len(responses') = Len(responses) + 1
    /\ responses'[Len(responses')].route = "refresh"

\* C39: a refresh answered 200 leaves the user's stored pool as it was with
\* the supplied keys added at its end, leaves every other user's pool as it
\* was, and reports the size of the stored pool.
C39_RefreshAppends ==
    [][RefreshAnswered =>
          LET r == responses'[Len(responses')]
          IN  /\ r.status = 200
              /\ users'[r.username].oneTimePreKeys =
                     users[r.username].oneTimePreKeys \o r.oneTimePreKeys
              /\ \A other \in DOMAIN users \ {r.username} :
                     users'[other] = users[other]
              /\ r.count = Len(users'[r.username].oneTimePreKeys)]_vars

\* ------------------------------------------------------------------------
\* Specification SpecLogout: App.js, the token state, the effect that
\* connects the WebSocket, the sockets' onopen and onclose handlers, the
\* reconnect timer and handleLogout.  web.token is 0 for null and the number
\* of the login otherwise; a WebSocket keeps the token of the effect run
\* whose connectWebSocket made it, which its handlers and timer read.
\* afterLogout and the sent frames' afterLogout are history: handleLogout had
\* run, with no login since, when the socket was made or the frame sent.
\* ------------------------------------------------------------------------
CONNECTING == "CONNECTING"

OthersOfWeb == <<engineVars, ratchetVars, calls, tf, op, simple, app, decrypts, fingerprints, serverVars>>

\* connectWebSocket of the effect run that saw token: new WebSocket(WS_URL)
\* and wsRef.current = ws.
connectWebSocket(w, token) ==
    [w EXCEPT !.ws = Append(@, [token |-> token, readyState |-> CONNECTING,
                                timer |-> "none", sent |-> <<>>,
                                afterLogout |-> w.loggedOut]),
              !.wsRef = Len(w.ws) + 1]

\* The effect with dependencies [token, handleWebSocketMessage], run after a
\* render in which token changed.
ConnectEffect(w) ==
    IF w.token # 0 /\ w.wsRef = 0 THEN connectWebSocket(w, w.token) ELSE w

\* handleLogin (and handleRegister) after a 200 answer: setToken(data.token),
\* then the render and its effect.
handleLogin ==
    /\ web.token = 0
    /\ web.logins < MaxLogins
    /\ Len(web.ws) < MaxWebSockets
    /\ web' = ConnectEffect([web EXCEPT !.token = web.logins + 1,
                                        !.logins = @ + 1,
                                        !.loggedOut = FALSE])
    /\ UNCHANGED OthersOfWeb

\* WebSocket.close(): a socket that is not yet closed starts closing.
close(socket) ==
    IF socket.readyState \in {CONNECTING, OPEN}
    THEN [socket EXCEPT !.readyState = CLOSING]
    ELSE socket

\* handleLogout: setToken(null), wsRef.current.close(), wsRef.current = null,
\* then the render and its effect.
handleLogout ==
    /\ web.token # 0
    /\ web' = ConnectEffect(
                 [web EXCEPT !.token = 0,
                             !.loggedOut = TRUE,
                             !.ws = IF web.wsRef # 0
                                    THEN [@ EXCEPT ![web.wsRef] = close(@)]
                                    ELSE @,
                             !.wsRef = 0])
    /\ UNCHANGED OthersOfWeb

\* ws.onopen: the authenticate frame carries the token of the closure.
onopen(i) ==
    /\ i \in DOMAIN web.ws
    /\ web.ws[i].readyState = CONNECTING
    /\ web' = [web EXCEPT
                 !.ws[i].readyState = OPEN,
                 !.ws[i].sent = Append(@, [type |-> "authenticate",
                                           token |-> web.ws[i].token,
                                           afterLogout |-> web.loggedOut])]
    /\ UNCHANGED OthersOfWeb

\* ws.onclose, after close() or when the connection fails or drops:
\* setTimeout(..., 3000).
onclose(i) ==
    /\ i \in DOMAIN web.ws
    /\ web.ws[i].readyState # CLOSED
    /\ web' = [web EXCEPT !.ws[i].readyState = CLOSED, !.ws[i].timer = "set"]
    /\ UNCHANGED OthersOfWeb

\* The timer's callback: if (token) connectWebSocket(), token being the
\* constant of the effect run that made the socket.
ReconnectTimer(i) ==
    /\ i \in DOMAIN web.ws
    /\ web.ws[i].timer = "set"
    /\ Len(web.ws) < MaxWebSockets
    /\ web' = LET w == [web EXCEPT !.ws[i].timer = "fired"]
              IN  IF web.ws[i].token # 0
                  THEN connectWebSocket(w, web.ws[i].token)
                  ELSE w
    /\ UNCHANGED OthersOfWeb

NextLogout ==
    \/ handleLogin
    \/ handleLogout
    \/ \E i \in 1..MaxWebSockets : onopen(i)
    \/ \E i \in 1..MaxWebSockets : onclose(i)
    \/ \E i \in 1..MaxWebSockets : ReconnectTimer(i)

SpecLogout == Init /\ [][NextLogout]_vars

\* C40: no WebSocket is made, and no authenticate frame sent, between a
\* handleLogout and the next login.
C40_LogoutIsFinal ==
    \A i \in DOMAIN web.ws :
        /\ ~web.ws[i].afterLogout
        /\ \A k \in DOMAIN web.ws[i].sent : ~web.ws[i].sent[k].afterLogout

====
